---- MODULE Spec2Model ----
(***************************************************************************)
(* Model of the local-inference feasibility estimator of can-i-run-it      *)
(* (src/src/lib/llmSizing.ts).                                             *)
(*                                                                         *)
(* The estimator is a library of pure functions.  Every exported function  *)
(* is an operator of the same name, computed as the code computes it, and  *)
(* an action that calls it on arguments drawn from bounded sets.           *)
(*                                                                         *)
(* Numbers.  The code computes on IEEE doubles; the model computes on      *)
(* exact fixed-point quantities: a memory figure x GB is the integer       *)
(* x * Unit.  Unit = 512000 = 2^12 * 5^3 makes every quantity the code     *)
(* derives from the bounded inputs (tenths of a GB, halves of a billion    *)
(* parameters, hundredths of bytes/param, tokens/1024) an integer, so no   *)
(* value is rounded.  Rounding error of doubles is outside the model.      *)
(*                                                                         *)
(* Optional values (null / undefined in the code) are Null = << >> and a   *)
(* present value x is Num(x) = << x >>.                                    *)
(***************************************************************************)
EXTENDS Integers, Sequences, FiniteSets, TLC

\* the estimator library: the function a caller has invoked, the arguments it
\* passed, the result it got, the arrays it passed as they are after the call,
\* and the module's constant tables
VARIABLES call, args, ret, caller, tables

\* the Ollama test panel: its React state (status, version, models, error),
\* the two requests of the running check, the position of runCheck and the
\* number of checks in flight
VARIABLES panel, requests, pc, inFlight

estimatorVars == <<call, args, ret, caller, tables>>
panelVars == <<panel, requests, pc, inFlight>>
vars == <<call, args, ret, caller, tables, panel, requests, pc, inFlight>>

----------------------------------------------------------------------------
(* Fixed-point arithmetic *)

Unit == 512 * 1000

\* n/d GB (or n/d billion parameters) in units
GB(n, d) == (n * Unit) \div d

\* x * n / d, rounded down, without overflowing 32-bit intermediates
MulRatio(x, n, d) == (x \div d) * n + ((x % d) * n) \div d

Null == << >>
Num(x) == << x >>
\* the number an optional value is used as in arithmetic: null coerces to 0
Val(o) == IF o = Null THEN 0 ELSE o[1]

Min2(a, b) == IF a <= b THEN a ELSE b
Max2(a, b) == IF a >= b THEN a ELSE b

----------------------------------------------------------------------------
(* Constants of llmSizing.ts *)

\* mutant: the Q6_K row carries the Q5_K_M figure
QUANT_CONFIGS_Q6AsQ5 ==
  [ Q2_K   |-> [bytesPerParam |-> 31,  label |-> "Q2"],
    Q3_K_M |-> [bytesPerParam |-> 41,  label |-> "Q3"],
    Q4_0   |-> [bytesPerParam |-> 55,  label |-> "Q4_0"],
    Q4_K_M |-> [bytesPerParam |-> 55,  label |-> "Q4"],
    Q5_K_M |-> [bytesPerParam |-> 68,  label |-> "Q5"],
    Q6_K   |-> [bytesPerParam |-> 68,  label |-> "Q6"],
    Q8_0   |-> [bytesPerParam |-> 107, label |-> "Q8"],
    F16    |-> [bytesPerParam |-> 200, label |-> "F16"] ]

\* mutant: the Q8_0 row reads 0.17 for 1.07
QUANT_CONFIGS_Q8Typo ==
  [ Q2_K   |-> [bytesPerParam |-> 31,  label |-> "Q2"],
    Q3_K_M |-> [bytesPerParam |-> 41,  label |-> "Q3"],
    Q4_0   |-> [bytesPerParam |-> 55,  label |-> "Q4_0"],
    Q4_K_M |-> [bytesPerParam |-> 55,  label |-> "Q4"],
    Q5_K_M |-> [bytesPerParam |-> 68,  label |-> "Q5"],
    Q6_K   |-> [bytesPerParam |-> 78,  label |-> "Q6"],
    Q8_0   |-> [bytesPerParam |-> 17,  label |-> "Q8"],
    F16    |-> [bytesPerParam |-> 200, label |-> "F16"] ]

\* bytesPerParam in hundredths of a byte
QUANT_CONFIGS ==
  [ Q2_K   |-> [bytesPerParam |-> 31,  label |-> "Q2"],
    Q3_K_M |-> [bytesPerParam |-> 41,  label |-> "Q3"],
    Q4_0   |-> [bytesPerParam |-> 55,  label |-> "Q4_0"],
    Q4_K_M |-> [bytesPerParam |-> 55,  label |-> "Q4"],
    Q5_K_M |-> [bytesPerParam |-> 68,  label |-> "Q5"],
    Q6_K   |-> [bytesPerParam |-> 78,  label |-> "Q6"],
    Q8_0   |-> [bytesPerParam |-> 107, label |-> "Q8"],
    F16    |-> [bytesPerParam |-> 200, label |-> "F16"] ]

QUANT_KEYS == << "Q4_K_M", "Q5_K_M", "Q8_0", "F16" >>
ALL_QUANT_KEYS ==
  << "Q2_K", "Q3_K_M", "Q4_0", "Q4_K_M", "Q5_K_M", "Q6_K", "Q8_0", "F16" >>

RUNTIME_OVERHEAD_BASE_GB == GB(12, 10)
\* GB per billion parameters, in hundredths
RUNTIME_OVERHEAD_PER_PARAM_B == 4

\* mutant: linux reserves the same fraction as windows
PLATFORM_OVERHEAD_LinuxFraction20 ==
  [ macos   |-> [base |-> GB(3, 1),   percent |-> 15],
    windows |-> [base |-> GB(35, 10), percent |-> 20],
    linux   |-> [base |-> GB(15, 10), percent |-> 20],
    mobile  |-> [base |-> GB(2, 1),   percent |-> 30],
    default |-> [base |-> GB(3, 1),   percent |-> 20] ]

\* base in units, percent in hundredths
PLATFORM_OVERHEAD ==
  [ macos   |-> [base |-> GB(3, 1),   percent |-> 15],
    windows |-> [base |-> GB(35, 10), percent |-> 20],
    linux   |-> [base |-> GB(15, 10), percent |-> 10],
    mobile  |-> [base |-> GB(2, 1),   percent |-> 30],
    default |-> [base |-> GB(3, 1),   percent |-> 20] ]

HEADROOM_THRESHOLDS ==
  [ COMFORTABLE |-> GB(2, 1), TIGHT |-> GB(1, 2), MAYBE |-> 0 - GB(3, 2) ]

----------------------------------------------------------------------------
(* Pure functions *)

estimateQuantSizeGB(paramsB, quant) ==
  LET config == QUANT_CONFIGS[quant]
  IN  MulRatio(paramsB, config.bytesPerParam, 100)

\* what a call estimateQuantSizeGB(paramsB, quant) does at run time: for a key
\* outside the table QUANT_CONFIGS[quant] is undefined, and reading
\* .bytesPerParam of undefined throws a TypeError that nothing catches
estimateQuantSizeGB_Outcome(paramsB, quant) ==
  IF quant \in DOMAIN QUANT_CONFIGS
  THEN [ kind |-> "return", value |-> estimateQuantSizeGB(paramsB, quant) ]
  ELSE [ kind |-> "throw", error |-> "TypeError" ]

\* mutant: the lower bound is forgotten
clamp_NoFloor(n, min, max) == Min2(max, n)

clamp(n, min, max) == Min2(max, Max2(min, n))

\* mutant: a breakpoint belongs to the upper step
kvGBPer1kTokens_BreakpointUp(paramsB) ==
  IF paramsB < GB(1, 1) THEN GB(3, 100)
  ELSE IF paramsB < GB(3, 1) THEN GB(6, 100)
  ELSE IF paramsB < GB(8, 1) THEN GB(8, 100)
  ELSE IF paramsB < GB(14, 1) THEN GB(12, 100)
  ELSE IF paramsB < GB(35, 1) THEN GB(20, 100)
  ELSE IF paramsB < GB(72, 1) THEN GB(35, 100)
  ELSE IF paramsB < GB(200, 1) THEN GB(50, 100)
  ELSE GB(80, 100)

kvGBPer1kTokens(paramsB) ==
  IF paramsB <= GB(1, 1) THEN GB(3, 100)
  ELSE IF paramsB <= GB(3, 1) THEN GB(6, 100)
  ELSE IF paramsB <= GB(8, 1) THEN GB(8, 100)
  ELSE IF paramsB <= GB(14, 1) THEN GB(12, 100)
  ELSE IF paramsB <= GB(35, 1) THEN GB(20, 100)
  ELSE IF paramsB <= GB(72, 1) THEN GB(35, 100)
  ELSE IF paramsB <= GB(200, 1) THEN GB(50, 100)
  ELSE GB(80, 100)

\* /\d+x\d+b/i over the tags the model uses
MoeTags == { "8x7b", "8x22b" }
isMoeModel(tag) == tag \in MoeTags

getEffectiveParams(variant) ==
  IF isMoeModel(variant.tag) THEN variant.paramsB ELSE variant.paramsB

\* mutant: the 5% metadata allowance is forgotten
WeightsGB_NoMetadata(variant) ==
  IF variant.sizeGB > 0
  THEN variant.sizeGB
  ELSE MulRatio(variant.paramsB, QUANT_CONFIGS.Q4_K_M.bytesPerParam, 100)

\* mutant: the download size is ignored, the weights always come from paramsB
WeightsGB_IgnoreSize(variant) ==
  MulRatio(MulRatio(variant.paramsB, QUANT_CONFIGS.Q4_K_M.bytesPerParam, 100),
           105, 100)

\* the weights term of estimateVariantMemoryGB
WeightsGB(variant) ==
  IF variant.sizeGB > 0
  THEN MulRatio(variant.sizeGB, 105, 100)
  ELSE MulRatio(MulRatio(variant.paramsB,
                         QUANT_CONFIGS.Q4_K_M.bytesPerParam, 100),
                105, 100)

\* mutant: the 8K cap is applied to the override as well
KvCacheGB_CapOverride(variant, contextTokens) ==
  LET ctx == IF contextTokens = Null
             THEN Min2(variant.context, 8192)
             ELSE Min2(Val(contextTokens), 8192)
      effectiveParams == getEffectiveParams(variant)
  IN  MulRatio(kvGBPer1kTokens(effectiveParams), ctx, 1024)

\* the KV-cache term of estimateVariantMemoryGB
KvCacheGB(variant, contextTokens) ==
  LET ctx == IF contextTokens = Null
             THEN Min2(variant.context, 8192)
             ELSE Val(contextTokens)
      effectiveParams == getEffectiveParams(variant)
  IN  MulRatio(kvGBPer1kTokens(effectiveParams), ctx, 1024)

\* mutant: the overhead is clamped to 8 GB instead of 6 GB
RuntimeOverheadGB_Ceiling8(variant) ==
  LET effectiveParams == getEffectiveParams(variant)
  IN  clamp(RUNTIME_OVERHEAD_BASE_GB
              + MulRatio(effectiveParams, RUNTIME_OVERHEAD_PER_PARAM_B, 100),
            GB(1, 1), GB(8, 1))

\* the overhead term of estimateVariantMemoryGB
RuntimeOverheadGB(variant) ==
  LET effectiveParams == getEffectiveParams(variant)
  IN  clamp(RUNTIME_OVERHEAD_BASE_GB
              + MulRatio(effectiveParams, RUNTIME_OVERHEAD_PER_PARAM_B, 100),
            GB(1, 1), GB(6, 1))

\* mutant: the total leaves the runtime overhead out
estimateVariantMemoryGB_DropOverhead(variant, contextTokens) ==
  LET weightsGB == WeightsGB(variant)
      kvCacheGB == KvCacheGB(variant, contextTokens)
      runtimeOverheadGB == RuntimeOverheadGB(variant)
      totalGB == weightsGB + kvCacheGB
  IN  [ weightsGB |-> weightsGB, kvCacheGB |-> kvCacheGB,
        runtimeOverheadGB |-> runtimeOverheadGB, totalGB |-> totalGB ]

estimateVariantMemoryGB(variant, contextTokens) ==
  LET weightsGB == WeightsGB(variant)
      kvCacheGB == KvCacheGB(variant, contextTokens)
      runtimeOverheadGB == RuntimeOverheadGB(variant)
      totalGB == weightsGB + kvCacheGB + runtimeOverheadGB
  IN  [ weightsGB |-> weightsGB, kvCacheGB |-> kvCacheGB,
        runtimeOverheadGB |-> runtimeOverheadGB, totalGB |-> totalGB ]

\* opts.platform is one of Platforms or absent ("undefined")
Platforms == { "macos", "windows", "linux", "mobile", "default" }

estimateUsableRamGB(ramGB, isMobile, platform) ==
  LET platform0 == IF platform = "undefined" THEN "default" ELSE platform
      platform1 == IF isMobile THEN "mobile" ELSE platform0
      overhead == PLATFORM_OVERHEAD[platform1]
      baseReserve == overhead.base
      percentReserve == MulRatio(ramGB, overhead.percent, 100)
      assumedReserveGB == clamp(baseReserve + percentReserve, GB(25, 10), GB(16, 1))
      usableRamGB == Max2(GB(1, 1), ramGB - assumedReserveGB)
  IN  [ usableRamGB |-> usableRamGB, assumedReserveGB |-> assumedReserveGB ]

\* mutant: the guard on a missing RAM figure is dropped
RamMissing_Never(ramGB) == FALSE

\* mutant: a small RAM figure is taken for an undetected one
RamMissing_SmallIsMissing(ramGB) == ramGB = Null \/ Val(ramGB) < GB(4, 1)

\* !args.ramGB : null and 0 are both falsy
RamMissing(ramGB) == ramGB = Null \/ ramGB = Num(0)

\* mutant: the thresholds are exclusive lower bounds
QuickClassify_Exclusive(estimate, headroomGB) ==
  IF headroomGB > HEADROOM_THRESHOLDS.COMFORTABLE
  THEN [ status |-> "run", stamp |-> "YES", shortLabel |-> "Can run",
         estimate |-> estimate, headroomGB |-> Num(headroomGB) ]
  ELSE IF headroomGB > HEADROOM_THRESHOLDS.TIGHT
  THEN [ status |-> "maybe", stamp |-> "TIGHT", shortLabel |-> "Tight fit",
         estimate |-> estimate, headroomGB |-> Num(headroomGB) ]
  ELSE IF headroomGB > HEADROOM_THRESHOLDS.MAYBE
  THEN [ status |-> "maybe", stamp |-> "MAYBE", shortLabel |-> "Might work",
         estimate |-> estimate, headroomGB |-> Num(headroomGB) ]
  ELSE [ status |-> "no", stamp |-> "NO", shortLabel |-> "Too big",
         estimate |-> estimate, headroomGB |-> Num(headroomGB) ]

\* the threshold ladder of getVariantVerdict
QuickClassify(estimate, headroomGB) ==
  IF headroomGB >= HEADROOM_THRESHOLDS.COMFORTABLE
  THEN [ status |-> "run", stamp |-> "YES", shortLabel |-> "Can run",
         estimate |-> estimate, headroomGB |-> Num(headroomGB) ]
  ELSE IF headroomGB >= HEADROOM_THRESHOLDS.TIGHT
  THEN [ status |-> "maybe", stamp |-> "TIGHT", shortLabel |-> "Tight fit",
         estimate |-> estimate, headroomGB |-> Num(headroomGB) ]
  ELSE IF headroomGB >= HEADROOM_THRESHOLDS.MAYBE
  THEN [ status |-> "maybe", stamp |-> "MAYBE", shortLabel |-> "Might work",
         estimate |-> estimate, headroomGB |-> Num(headroomGB) ]
  ELSE [ status |-> "no", stamp |-> "NO", shortLabel |-> "Too big",
         estimate |-> estimate, headroomGB |-> Num(headroomGB) ]

\* mutant: the headroom is taken with the wrong sign
getVariantVerdict_HeadroomReversed(variant, ramGB, contextTokens, isMobile, platform) ==
  LET estimate == estimateVariantMemoryGB(variant, contextTokens)
      usableRamGB == estimateUsableRamGB(Val(ramGB), isMobile, platform).usableRamGB
      headroomGB == estimate.totalGB - usableRamGB
  IN  IF RamMissing(ramGB)
      THEN [ status |-> "maybe", stamp |-> "?", shortLabel |-> "Set RAM",
             estimate |-> estimate, headroomGB |-> Null ]
      ELSE QuickClassify(estimate, headroomGB)

\* mutant: the quick verdict drops the context override
getVariantVerdict_IgnoreOverride(variant, ramGB, contextTokens, isMobile, platform) ==
  LET estimate == estimateVariantMemoryGB(variant, Null)
      usableRamGB == estimateUsableRamGB(Val(ramGB), isMobile, platform).usableRamGB
      headroomGB == usableRamGB - estimate.totalGB
  IN  IF RamMissing(ramGB)
      THEN [ status |-> "maybe", stamp |-> "?", shortLabel |-> "Set RAM",
             estimate |-> estimate, headroomGB |-> Null ]
      ELSE QuickClassify(estimate, headroomGB)

getVariantVerdict(variant, ramGB, contextTokens, isMobile, platform) ==
  LET estimate == estimateVariantMemoryGB(variant, contextTokens)
      usableRamGB == estimateUsableRamGB(Val(ramGB), isMobile, platform).usableRamGB
      headroomGB == usableRamGB - estimate.totalGB
  IN  IF RamMissing(ramGB)
      THEN [ status |-> "maybe", stamp |-> "?", shortLabel |-> "Set RAM",
             estimate |-> estimate, headroomGB |-> Null ]
      ELSE QuickClassify(estimate, headroomGB)

\* Math.ceil of a quantity in units, as a whole number
Ceil(x) == 0 - ((0 - x) \div Unit)

getMaxRunnableParams(ramGB) ==
  LET usableRamGB == estimateUsableRamGB(ramGB, FALSE, "undefined").usableRamGB
      overhead == GB(2, 1)
      \* (usableRamGB - overhead) / 0.7, floored to a whole number
      maxParams == MulRatio(usableRamGB - overhead, 10, 7 * Unit)
  IN  Max2(0, maxParams)

\* notes and tips are kept as their kinds; the formatted figures
\* (toFixed(1)) inside the texts are not part of the model
CpuNote(cores) ==
  IF cores = Null \/ cores = Num(0) THEN << >>
  ELSE IF Val(cores) >= 16 THEN << "CPU: Excellent" >>
  ELSE IF Val(cores) >= 10 THEN << "CPU: Good" >>
  ELSE IF Val(cores) >= 8 THEN << "CPU: Decent" >>
  ELSE IF Val(cores) >= 6 THEN << "CPU: Moderate" >>
  ELSE << "CPU: Limited" >>

SizeNote(paramsB) ==
  IF paramsB <= GB(1, 1) THEN << "Tiny model" >>
  ELSE IF paramsB <= GB(3, 1) THEN << "Small model" >>
  ELSE IF paramsB <= GB(8, 1) THEN << "Medium model" >>
  ELSE IF paramsB <= GB(14, 1) THEN << "Mid-size model" >>
  ELSE IF paramsB <= GB(35, 1) THEN << "Large model" >>
  ELSE IF paramsB <= GB(72, 1) THEN << "Very large model" >>
  ELSE << "Massive model" >>

getFullVariantVerdict(variant, ramGB, cores, contextTokens, isMobile, platform) ==
  LET estimate == estimateVariantMemoryGB(variant, contextTokens)
      paramsB == variant.paramsB
      notes == CpuNote(cores) \o SizeNote(paramsB) \o << "Memory breakdown" >>
      usable == estimateUsableRamGB(Val(ramGB), isMobile, platform)
      usableRamGB == usable.usableRamGB
      assumedReserveGB == usable.assumedReserveGB
      margin == usableRamGB - estimate.totalGB
      neededRam == Ceil(estimate.totalGB + assumedReserveGB + GB(2, 1))
      maxParamsB == getMaxRunnableParams(Val(ramGB))
  IN  IF RamMissing(ramGB)
      THEN [ status |-> "unknown", stamp |-> "MAYBE?",
             notes |-> notes \o << "Browser couldn't detect RAM" >>,
             tips |-> << "8GB", "16GB", "32GB", "64GB", "128GB+" >>,
             estimate |-> estimate,
             usableRamGB |-> Null, assumedReserveGB |-> Null ]
      ELSE IF margin >= HEADROOM_THRESHOLDS.COMFORTABLE
      THEN [ status |-> "run", stamp |-> "RUN IT",
             notes |-> notes \o << "Headroom: comfortable fit" >>,
             tips |-> << "Run", "increase context" >>
                      \o (IF paramsB >= GB(7, 1) THEN << "close apps" >> ELSE << >>),
             estimate |-> estimate,
             usableRamGB |-> Num(usableRamGB),
             assumedReserveGB |-> Num(assumedReserveGB) ]
      ELSE IF margin >= HEADROOM_THRESHOLDS.TIGHT
      THEN [ status |-> "maybe", stamp |-> "TIGHT FIT",
             notes |-> notes \o << "Headroom: workable but tight" >>,
             tips |-> << "Close browsers", "Keep context", "Run" >>,
             estimate |-> estimate,
             usableRamGB |-> Num(usableRamGB),
             assumedReserveGB |-> Num(assumedReserveGB) ]
      ELSE IF margin >= HEADROOM_THRESHOLDS.MAYBE
      THEN [ status |-> "maybe", stamp |-> "MAYBE",
             notes |-> notes \o << "Borderline" >>,
             tips |-> << "minimal context", "Quit applications", "next smaller" >>,
             estimate |-> estimate,
             usableRamGB |-> Num(usableRamGB),
             assumedReserveGB |-> Num(assumedReserveGB) ]
      ELSE [ status |-> "no", stamp |-> "NOT TODAY",
             notes |-> notes \o << "Short by" >>,
             tips |-> << "smaller variant", << "need RAM", neededRam >> >>
                      \o (IF maxParamsB > 0
                          THEN << << "aim for", maxParamsB >> >> ELSE << >>),
             estimate |-> estimate,
             usableRamGB |-> Num(usableRamGB),
             assumedReserveGB |-> Num(assumedReserveGB) ]


\* Array.prototype.sort with a comparator is a stable sort: elements the
\* comparator calls equal keep their input order.

\* [...variants].sort((a, b) => b.paramsB - a.paramsB)
RECURSIVE InsertByParamsDesc(_, _)
InsertByParamsDesc(x, s) ==
  IF s = << >> THEN << x >>
  ELSE IF x.paramsB - s[1].paramsB < 0
       THEN << s[1] >> \o InsertByParamsDesc(x, Tail(s))
       ELSE << x >> \o s

RECURSIVE SortByParamsDesc(_)
SortByParamsDesc(s) ==
  IF s = << >> THEN << >>
  ELSE InsertByParamsDesc(s[1], SortByParamsDesc(Tail(s)))

\* [...sizes].sort((a, b) => a - b)
RECURSIVE InsertAscending(_, _)
InsertAscending(x, s) ==
  IF s = << >> THEN << x >>
  ELSE IF s[1] - x < 0
       THEN << s[1] >> \o InsertAscending(x, Tail(s))
       ELSE << x >> \o s

RECURSIVE SortAscending(_)
SortAscending(s) ==
  IF s = << >> THEN << >>
  ELSE InsertAscending(s[1], SortAscending(Tail(s)))

\* the first element of sorted whose quick verdict has the wanted status
RECURSIVE FirstWithStatus(_, _, _, _, _)
FirstWithStatus(sorted, status, ramGB, isMobile, platform) ==
  IF sorted = << >> THEN Null
  ELSE LET variant == sorted[1]
           verdict == getVariantVerdict(variant, ramGB, Null, isMobile, platform)
       IN  IF verdict.status = status
           THEN Num([ variant |-> variant, verdict |-> verdict ])
           ELSE FirstWithStatus(Tail(sorted), status, ramGB, isMobile, platform)

\* mutant: one pass that takes the first variant that is not "no"
getBestRunnableVariant_SinglePass(variants, ramGB, isMobile, platform) ==
  IF RamMissing(ramGB) THEN Null
  ELSE LET sorted == SortByParamsDesc(variants)
           firstPass == FirstWithStatus(sorted, "run", ramGB, isMobile, platform)
           secondPass == FirstWithStatus(sorted, "maybe", ramGB, isMobile, platform)
       IN  IF firstPass = Null THEN secondPass
           ELSE IF secondPass = Null THEN firstPass
           ELSE IF Val(secondPass).variant.paramsB > Val(firstPass).variant.paramsB
           THEN secondPass ELSE firstPass

\* mutant: the second pass is forgotten
getBestRunnableVariant_FirstPassOnly(variants, ramGB, isMobile, platform) ==
  IF RamMissing(ramGB) THEN Null
  ELSE FirstWithStatus(SortByParamsDesc(variants), "run", ramGB, isMobile,
                       platform)

getBestRunnableVariant(variants, ramGB, isMobile, platform) ==
  IF RamMissing(ramGB) THEN Null
  ELSE LET sorted == SortByParamsDesc(variants)
           firstPass == FirstWithStatus(sorted, "run", ramGB, isMobile, platform)
           secondPass == FirstWithStatus(sorted, "maybe", ramGB, isMobile, platform)
       IN  IF firstPass # Null THEN firstPass ELSE secondPass

\* mutant: the caller's array itself is sorted
VariantsAfter_getBestRunnableVariant_InPlace(variants) ==
  SortByParamsDesc(variants)

\* args.variants after getBestRunnableVariant: the sort is applied to the copy
\* [...args.variants], nothing else writes to an array
VariantsAfter_getBestRunnableVariant(variants) == variants

\* args.variants.map(variant => ({ variant, verdict: getVariantVerdict(...) }))
MapVerdicts(variants, ramGB, isMobile, platform) ==
  [ i \in 1..Len(variants) |->
      [ variant |-> variants[i],
        verdict |-> getVariantVerdict(variants[i], ramGB, Null, isMobile,
                                      platform) ] ]

\* mutant: within one status the smaller variant comes first
CompareRunnable_SmallestFirst(a, b) ==
  IF a.verdict.status # b.verdict.status
  THEN IF a.verdict.status = "run" THEN -1 ELSE 1
  ELSE a.variant.paramsB - b.variant.paramsB

\* the comparator of getRunnableVariants: status (run before maybe), then
\* paramsB descending
CompareRunnable(a, b) ==
  IF a.verdict.status # b.verdict.status
  THEN IF a.verdict.status = "run" THEN -1 ELSE 1
  ELSE b.variant.paramsB - a.variant.paramsB

RECURSIVE InsertRunnable(_, _)
InsertRunnable(x, s) ==
  IF s = << >> THEN << x >>
  ELSE IF CompareRunnable(x, s[1]) > 0
       THEN << s[1] >> \o InsertRunnable(x, Tail(s))
       ELSE << x >> \o s

\* .sort((a, b) => ...) of getRunnableVariants; Array.prototype.sort is stable
RECURSIVE SortRunnable(_)
SortRunnable(s) ==
  IF s = << >> THEN << >>
  ELSE InsertRunnable(s[1], SortRunnable(Tail(s)))

\* mutant: the entries are sorted by paramsB alone
getRunnableVariants_ByParamsOnly(variants, ramGB, isMobile, platform) ==
  IF RamMissing(ramGB) THEN << >>
  ELSE LET NotNo(e) == e.verdict.status # "no"
           kept == SelectSeq(MapVerdicts(variants, ramGB, isMobile, platform),
                             NotNo)
           sorted == SortByParamsDesc([ i \in 1..Len(kept) |-> kept[i].variant ])
       IN  [ i \in 1..Len(sorted) |->
               [ variant |-> sorted[i],
                 verdict |-> getVariantVerdict(sorted[i], ramGB, Null, isMobile,
                                               platform) ] ]

getRunnableVariants(variants, ramGB, isMobile, platform) ==
  IF RamMissing(ramGB) THEN << >>
  ELSE LET NotNo(e) == e.verdict.status # "no"
       IN  SortRunnable(SelectSeq(MapVerdicts(variants, ramGB, isMobile,
                                              platform),
                                  NotNo))

\* args.variants after getRunnableVariants: map and filter build new arrays,
\* and the sort is applied to the filtered one
VariantsAfter_getRunnableVariants(variants) == variants

\* mutant: the matrix default context is taken to be 8K
CellMemory_Default8K(paramsB, quant, context) ==
  LET sizeGB == estimateQuantSizeGB(paramsB, quant)
      ctx == IF context = Null THEN 8192 ELSE Val(context)
      weightsGB == MulRatio(sizeGB, 105, 100)
      kvCacheGB == MulRatio(kvGBPer1kTokens(paramsB), ctx, 1024)
      runtimeOverheadGB ==
        clamp(RUNTIME_OVERHEAD_BASE_GB
                + MulRatio(paramsB, RUNTIME_OVERHEAD_PER_PARAM_B, 100),
              GB(1, 1), GB(6, 1))
      totalMemoryGB == weightsGB + kvCacheGB + runtimeOverheadGB
  IN  [ sizeGB |-> sizeGB, totalMemoryGB |-> totalMemoryGB ]

\* the size and the total memory getQuantCellVerdict computes for a cell
CellMemory(paramsB, quant, context) ==
  LET sizeGB == estimateQuantSizeGB(paramsB, quant)
      ctx == IF context = Null THEN 4096 ELSE Val(context)
      weightsGB == MulRatio(sizeGB, 105, 100)
      kvCacheGB == MulRatio(kvGBPer1kTokens(paramsB), ctx, 1024)
      runtimeOverheadGB ==
        clamp(RUNTIME_OVERHEAD_BASE_GB
                + MulRatio(paramsB, RUNTIME_OVERHEAD_PER_PARAM_B, 100),
              GB(1, 1), GB(6, 1))
      totalMemoryGB == weightsGB + kvCacheGB + runtimeOverheadGB
  IN  [ sizeGB |-> sizeGB, totalMemoryGB |-> totalMemoryGB ]

getQuantCellVerdict(paramsB, quant, ramGB, context, isMobile, platform) ==
  LET mem == CellMemory(paramsB, quant, context)
      sizeGB == mem.sizeGB
      totalMemoryGB == mem.totalMemoryGB
      usableRamGB == estimateUsableRamGB(Val(ramGB), isMobile, platform).usableRamGB
      headroomGB == usableRamGB - totalMemoryGB
  IN  IF RamMissing(ramGB)
      THEN [ status |-> "unknown", sizeGB |-> sizeGB,
             totalMemoryGB |-> totalMemoryGB, headroomGB |-> Null ]
      ELSE IF headroomGB >= HEADROOM_THRESHOLDS.COMFORTABLE
      THEN [ status |-> "run", sizeGB |-> sizeGB,
             totalMemoryGB |-> totalMemoryGB, headroomGB |-> Num(headroomGB) ]
      ELSE IF headroomGB >= HEADROOM_THRESHOLDS.MAYBE
      THEN [ status |-> "maybe", sizeGB |-> sizeGB,
             totalMemoryGB |-> totalMemoryGB, headroomGB |-> Num(headroomGB) ]
      ELSE [ status |-> "no", sizeGB |-> sizeGB,
             totalMemoryGB |-> totalMemoryGB, headroomGB |-> Num(headroomGB) ]

\* cells[quant] = ... for each quant of keys, in order, starting from {}
RECURSIVE FillCells(_, _, _, _, _, _, _)
FillCells(cells, keys, paramsB, ramGB, context, isMobile, platform) ==
  IF keys = << >> THEN cells
  ELSE LET quant == keys[1]
           cell == getQuantCellVerdict(paramsB, quant, ramGB, context,
                                       isMobile, platform)
           assigned == [ k \in (DOMAIN cells) \cup { quant } |->
                           IF k = quant THEN cell ELSE cells[k] ]
       IN  FillCells(assigned, Tail(keys), paramsB, ramGB, context,
                     isMobile, platform)

\* paramsB < 1 ? `${(paramsB * 1000).toFixed(0)}M` : `${paramsB}B`
\* kept as the number printed (rounded to the nearest whole) and its suffix
RowLabel(paramsB) ==
  IF paramsB < GB(1, 1)
  THEN << (2000 * paramsB + Unit) \div (2 * Unit), "M" >>
  ELSE << paramsB, "B" >>

\* mutant: the sizes are not sorted
getQuantMatrix_Unsorted(paramSizes, ramGB, context, isMobile, platform) ==
  LET emptyCells == [ k \in {} |-> 0 ]
  IN  [ i \in 1..Len(paramSizes) |->
          [ paramsB |-> paramSizes[i],
            label |-> RowLabel(paramSizes[i]),
            cells |-> FillCells(emptyCells, QUANT_KEYS, paramSizes[i], ramGB,
                                context, isMobile, platform) ] ]

getQuantMatrix(paramSizes, ramGB, context, isMobile, platform) ==
  LET sorted == SortAscending(paramSizes)
      emptyCells == [ k \in {} |-> 0 ]
  IN  [ i \in 1..Len(sorted) |->
          [ paramsB |-> sorted[i],
            label |-> RowLabel(sorted[i]),
            cells |-> FillCells(emptyCells, QUANT_KEYS, sorted[i], ramGB,
                                context, isMobile, platform) ] ]

\* the elements of a Set built from s, in insertion order
RECURSIVE Distinct(_)
Distinct(s) ==
  IF s = << >> THEN << >>
  ELSE LET init == Distinct(SubSeq(s, 1, Len(s) - 1))
           last == s[Len(s)]
       IN  IF \E i \in 1..Len(init) : init[i] = last
           THEN init ELSE Append(init, last)

getUniqueParamSizes(variants) ==
  LET sizes == Distinct([ i \in 1..Len(variants) |-> variants[i].paramsB ])
  IN  SortAscending(sizes)

\* args.paramSizes after getQuantMatrix: the sort is applied to the copy
\* [...args.paramSizes]
ParamSizesAfter_getQuantMatrix(paramSizes) == paramSizes

\* variants after getUniqueParamSizes: the sizes are collected in a new Set and
\* sorted in a new array
VariantsAfter_getUniqueParamSizes(variants) == variants

\* the constant tables of the module
Tables ==
  [ QUANT_CONFIGS |-> QUANT_CONFIGS, PLATFORM_OVERHEAD |-> PLATFORM_OVERHEAD,
    HEADROOM_THRESHOLDS |-> HEADROOM_THRESHOLDS ]

----------------------------------------------------------------------------
(* Bounded inputs *)

\* longest variant list and longest parameter-size list passed to a call
MaxVariants == 3
MaxSizes == 3

\* billions of parameters: 0 (embedding-only) up to beyond the last
\* KV-cache breakpoint
ParamsBValues ==
  { GB(h, 2) : h \in { 0, 1, 2, 6, 14, 16, 28, 70, 144, 400, 472 } }

\* on-disk size in GB; 0 is "no trustworthy size"
SizeGBValues == { GB(t, 10) : t \in { 0, 28, 47, 48, 68 } }

ContextValues == { 2048, 8192, 131072 }

\* contextTokens / context argument: absent or a token count
ContextArgs == { Null, Num(0), Num(4096), Num(32768) }

\* ramGB argument: null, or a number of GB
RamArgs ==
  { Null } \cup { Num(GB(g, 1)) : g \in { 0, 2, 4, 8, 16, 32, 256 } }

CoresArgs == { Null, Num(8) }

PlatformArgs == Platforms \cup { "undefined" }

\* the isMobile / platform options of a call; with isMobile set the platform
\* option is overridden, so two platform values stand for all of them
OptsArgs ==
  { [ isMobile |-> FALSE, platform |-> p ] : p \in PlatformArgs }
    \cup { [ isMobile |-> TRUE, platform |-> p ] : p \in { "undefined", "linux" } }

\* single variants handed to the estimator
Variants ==
  { [ tag |-> "latest", paramsB |-> p, sizeGB |-> s, quant |-> "Q4_K_M",
      context |-> c ] :
      p \in ParamsBValues, s \in SizeGBValues, c \in ContextValues }

\* parameter counts around the point where the runtime overhead reaches its
\* ceiling (1.2 + 0.04 * 120 = 6.0)
KneeParamsBValues == { GB(h, 2) : h \in { 3, 239, 240, 241 } }

\* the variants estimateVariantMemoryGB is called on
EstimatorVariants ==
  Variants \cup
    { [ tag |-> "latest", paramsB |-> p, sizeGB |-> s, quant |-> "Q4_K_M",
        context |-> c ] :
        p \in KneeParamsBValues, s \in SizeGBValues, c \in ContextValues }

\* parameter counts on and just above every breakpoint of kvGBPer1kTokens
KvParamsBValues ==
  { GB(h, 2) : h \in { 0, 1, 2, 3, 6, 7, 16, 17, 28, 29, 70, 71, 144, 145,
                        400, 401, 810 } }

\* the variants of one catalog entry, as passed in lists
VariantPool ==
  { [ tag |-> "0.5b", paramsB |-> GB(1, 2), sizeGB |-> GB(4, 10),
      quant |-> "Q4_K_M", context |-> 8192 ],
    [ tag |-> "7b", paramsB |-> GB(7, 1), sizeGB |-> GB(47, 10),
      quant |-> "Q4_K_M", context |-> 8192 ],
    [ tag |-> "8b", paramsB |-> GB(8, 1), sizeGB |-> GB(48, 10),
      quant |-> "Q4_K_M", context |-> 8192 ],
    [ tag |-> "8b-q8", paramsB |-> GB(8, 1), sizeGB |-> GB(68, 10),
      quant |-> "Q8_0", context |-> 8192 ],
    [ tag |-> "8x7b", paramsB |-> GB(47, 1), sizeGB |-> GB(26, 1),
      quant |-> "Q4_K_M", context |-> 32768 ],
    [ tag |-> "3b", paramsB |-> GB(3, 1), sizeGB |-> GB(2, 1),
      quant |-> "Q4_K_M", context |-> 131072 ] }

SeqsUpTo(S, n) == UNION { [ 1..k -> S ] : k \in 0..n }

VariantLists == SeqsUpTo(VariantPool, MaxVariants)

ParamSizePool == { GB(h, 2) : h \in { 1, 14, 16, 140 } }
ParamSizeLists == SeqsUpTo(ParamSizePool, MaxSizes)

AllQuants == { ALL_QUANT_KEYS[i] : i \in 1..Len(ALL_QUANT_KEYS) }

\* values outside the data model that the types do not rule out: negative
\* numbers, and quantization keys that are not in QUANT_CONFIGS
SignedParamsBValues == { GB(h, 2) : h \in { -14, -2, 0, 2, 14 } }
SignedSizeGBValues == { GB(t, 10) : t \in { -47, -10, 0, 47 } }
SignedContextValues == { -2048, 2048, 8192 }
SignedContextArgs == { Null, Num(-4096), Num(0), Num(4096) }
UncheckedVariants ==
  { [ tag |-> "latest", paramsB |-> p, sizeGB |-> s, quant |-> "Q4_K_M",
      context |-> c ] :
      p \in SignedParamsBValues, s \in SignedSizeGBValues,
      c \in SignedContextValues }
UnknownQuants == { "Q1_K", "q4_k_m" }

----------------------------------------------------------------------------
(* State machine: a caller invokes one function, reads the result and
   discards it; nothing persists across calls. *)

Idle == << >>

\* a request of the panel that has not been made
NoRequest ==
  [ phase |-> "none", timer |-> "none", response |-> Null, body |-> "unread",
    outcome |-> Null ]

Init ==
  /\ call = "idle"
  /\ args = Idle
  /\ ret = Idle
  /\ caller = Idle
  /\ tables = Tables
  /\ panel = [ status |-> "idle", version |-> Null, models |-> Null,
               error |-> Null ]
  /\ requests = [ version |-> NoRequest, models |-> NoRequest ]
  /\ pc = "idle"
  /\ inFlight = 0

Call_estimateQuantSizeGB ==
  /\ call = "idle"
  /\ \E paramsB \in ParamsBValues, quant \in AllQuants :
       /\ call' = "estimateQuantSizeGB"
       /\ args' = [ paramsB |-> paramsB, quant |-> quant ]
       /\ ret' = estimateQuantSizeGB_Outcome(paramsB, quant)
       /\ caller' = Idle
  /\ UNCHANGED << tables, panelVars >>

Call_kvGBPer1kTokens ==
  /\ call = "idle"
  /\ \E paramsB \in KvParamsBValues :
       /\ call' = "kvGBPer1kTokens"
       /\ args' = [ paramsB |-> paramsB ]
       /\ ret' = kvGBPer1kTokens(paramsB)
       /\ caller' = Idle
  /\ UNCHANGED << tables, panelVars >>

Call_estimateVariantMemoryGB ==
  /\ call = "idle"
  /\ \E variant \in EstimatorVariants, contextTokens \in ContextArgs :
       /\ call' = "estimateVariantMemoryGB"
       /\ args' = [ variant |-> variant, contextTokens |-> contextTokens ]
       /\ ret' = estimateVariantMemoryGB(variant, contextTokens)
       /\ caller' = Idle
  /\ UNCHANGED << tables, panelVars >>

Call_estimateUsableRamGB ==
  /\ call = "idle"
  /\ \E ramGB \in RamArgs \ { Null }, opts \in OptsArgs :
       /\ call' = "estimateUsableRamGB"
       /\ args' = [ ramGB |-> Val(ramGB), isMobile |-> opts.isMobile,
                    platform |-> opts.platform ]
       /\ ret' = estimateUsableRamGB(Val(ramGB), opts.isMobile, opts.platform)
       /\ caller' = Idle
  /\ UNCHANGED << tables, panelVars >>

Call_getVariantVerdict ==
  /\ call = "idle"
  /\ \E variant \in Variants, ramGB \in RamArgs, contextTokens \in ContextArgs,
        opts \in OptsArgs :
       /\ call' = "getVariantVerdict"
       /\ args' = [ variant |-> variant, ramGB |-> ramGB,
                    contextTokens |-> contextTokens, isMobile |-> opts.isMobile,
                    platform |-> opts.platform ]
       /\ ret' = getVariantVerdict(variant, ramGB, contextTokens,
                                   opts.isMobile, opts.platform)
       /\ caller' = Idle
  /\ UNCHANGED << tables, panelVars >>

Call_getFullVariantVerdict ==
  /\ call = "idle"
  /\ \E variant \in Variants, ramGB \in RamArgs, cores \in CoresArgs,
        contextTokens \in ContextArgs, opts \in OptsArgs :
       /\ call' = "getFullVariantVerdict"
       /\ args' = [ variant |-> variant, ramGB |-> ramGB, cores |-> cores,
                    contextTokens |-> contextTokens, isMobile |-> opts.isMobile,
                    platform |-> opts.platform ]
       /\ ret' = getFullVariantVerdict(variant, ramGB, cores, contextTokens,
                                       opts.isMobile, opts.platform)
       /\ caller' = Idle
  /\ UNCHANGED << tables, panelVars >>

Call_getBestRunnableVariant ==
  /\ call = "idle"
  /\ \E variants \in VariantLists, ramGB \in RamArgs, opts \in OptsArgs :
       /\ call' = "getBestRunnableVariant"
       /\ args' = [ variants |-> variants, ramGB |-> ramGB,
                    isMobile |-> opts.isMobile, platform |-> opts.platform ]
       /\ ret' = getBestRunnableVariant(variants, ramGB, opts.isMobile,
                                        opts.platform)
       /\ caller' = [ variants |-> VariantsAfter_getBestRunnableVariant(variants) ]
  /\ UNCHANGED << tables, panelVars >>

Call_getRunnableVariants ==
  /\ call = "idle"
  /\ \E variants \in VariantLists, ramGB \in RamArgs, opts \in OptsArgs :
       /\ call' = "getRunnableVariants"
       /\ args' = [ variants |-> variants, ramGB |-> ramGB,
                    isMobile |-> opts.isMobile, platform |-> opts.platform ]
       /\ ret' = getRunnableVariants(variants, ramGB, opts.isMobile,
                                     opts.platform)
       /\ caller' = [ variants |-> VariantsAfter_getRunnableVariants(variants) ]
  /\ UNCHANGED << tables, panelVars >>

Call_getQuantCellVerdict ==
  /\ call = "idle"
  /\ \E paramsB \in ParamsBValues, quant \in AllQuants, ramGB \in RamArgs,
        context \in ContextArgs, opts \in OptsArgs :
       /\ call' = "getQuantCellVerdict"
       /\ args' = [ paramsB |-> paramsB, quant |-> quant, ramGB |-> ramGB,
                    context |-> context, isMobile |-> opts.isMobile,
                    platform |-> opts.platform ]
       /\ ret' = getQuantCellVerdict(paramsB, quant, ramGB, context,
                                     opts.isMobile, opts.platform)
       /\ caller' = Idle
  /\ UNCHANGED << tables, panelVars >>

Call_getQuantMatrix ==
  /\ call = "idle"
  /\ \E paramSizes \in ParamSizeLists, ramGB \in RamArgs,
        context \in ContextArgs, opts \in OptsArgs :
       /\ call' = "getQuantMatrix"
       /\ args' = [ paramSizes |-> paramSizes, ramGB |-> ramGB,
                    context |-> context, isMobile |-> opts.isMobile,
                    platform |-> opts.platform ]
       /\ ret' = getQuantMatrix(paramSizes, ramGB, context, opts.isMobile,
                                opts.platform)
       /\ caller' = [ paramSizes |-> ParamSizesAfter_getQuantMatrix(paramSizes) ]
  /\ UNCHANGED << tables, panelVars >>

Call_getUniqueParamSizes ==
  /\ call = "idle"
  /\ \E variants \in VariantLists :
       /\ call' = "getUniqueParamSizes"
       /\ args' = [ variants |-> variants ]
       /\ ret' = getUniqueParamSizes(variants)
       /\ caller' = [ variants |-> VariantsAfter_getUniqueParamSizes(variants) ]
  /\ UNCHANGED << tables, panelVars >>

\* the caller is done with the result
Discard ==
  /\ call # "idle"
  /\ call' = "idle"
  /\ args' = Idle
  /\ ret' = Idle
  /\ caller' = Idle
  /\ UNCHANGED << tables, panelVars >>

Next ==
  \/ Call_estimateQuantSizeGB
  \/ Call_kvGBPer1kTokens
  \/ Call_estimateVariantMemoryGB
  \/ Call_estimateUsableRamGB
  \/ Call_getVariantVerdict
  \/ Call_getFullVariantVerdict
  \/ Call_getBestRunnableVariant
  \/ Call_getRunnableVariants
  \/ Call_getQuantCellVerdict
  \/ Call_getQuantMatrix
  \/ Call_getUniqueParamSizes
  \/ Discard

Spec == Init /\ [][Next]_vars

----------------------------------------------------------------------------
(* Callers that hand over values outside the data model.  The functions
   validate nothing, so the same code runs on them. *)

Call_estimateVariantMemoryGB_Unchecked ==
  /\ call = "idle"
  /\ \E variant \in UncheckedVariants, contextTokens \in SignedContextArgs :
       /\ call' = "estimateVariantMemoryGB"
       /\ args' = [ variant |-> variant, contextTokens |-> contextTokens ]
       /\ ret' = estimateVariantMemoryGB(variant, contextTokens)
       /\ caller' = Idle
  /\ UNCHANGED << tables, panelVars >>

Call_estimateQuantSizeGB_Unchecked ==
  /\ call = "idle"
  /\ \E paramsB \in SignedParamsBValues, quant \in AllQuants \cup UnknownQuants :
       /\ call' = "estimateQuantSizeGB"
       /\ args' = [ paramsB |-> paramsB, quant |-> quant ]
       /\ ret' = estimateQuantSizeGB_Outcome(paramsB, quant)
       /\ caller' = Idle
  /\ UNCHANGED << tables, panelVars >>

NextUnchecked ==
  \/ Call_estimateVariantMemoryGB_Unchecked
  \/ Call_estimateQuantSizeGB_Unchecked
  \/ Discard

SpecUnchecked == Init /\ [][NextUnchecked]_vars

----------------------------------------------------------------------------
(* The Ollama test panel (OllamaTestPanel.runCheck) and the client it calls
   (fetchJson, getOllamaVersion, listOllamaModels).

   A check starts two requests.  Each request is a call of fetchJson: it arms
   a timer that aborts the request, awaits fetch(), then awaits the body
   (res.json() for an OK response, res.text() for any other), and settles.
   The server, the network and the timers are the environment. *)

\* timeoutMs of the two requests of a check
RequestTimeoutMs == [ version |-> 1600, models |-> 2200 ]

RequestNames == DOMAIN RequestTimeoutMs

\* what the awaited promises of fetchJson can throw
AbortError == [ exception |-> "DOMException", name |-> "AbortError" ]
TypeError == [ exception |-> "TypeError", name |-> "TypeError" ]
SyntaxError == [ exception |-> "SyntaxError", name |-> "SyntaxError" ]

\* const err: OllamaError = { kind: 'http', ..., status: res.status }
HttpError(res) == [ kind |-> "http", status |-> res.status ]

\* mutant: the catch block has no AbortError case
fetchJson_catch_NoAbortCase(e) ==
  IF "kind" \in DOMAIN e THEN e ELSE [ kind |-> "cors_or_mixed" ]

\* the catch block of fetchJson: the OllamaError the call rejects with
fetchJson_catch(e) ==
  IF "exception" \in DOMAIN e /\ e.exception = "DOMException"
       /\ e.name = "AbortError"
  THEN [ kind |-> "timeout" ]
  ELSE IF "kind" \in DOMAIN e THEN e
  ELSE [ kind |-> "cors_or_mixed" ]

\* window.clearTimeout(t) in the finally block: cancels a timer that has not
\* fired
clearTimeout(timer) == IF timer = "armed" THEN "cleared" ELSE timer

Fulfilled(value) == [ status |-> "fulfilled", value |-> value ]
Rejected(reason) == [ status |-> "rejected", reason |-> reason ]

\* a request that has settled: try / catch / finally have run
SettleRequest(q, outcome) ==
  [ q EXCEPT !.phase = "settled", !.outcome = outcome,
             !.timer = clearTimeout(@) ]

\* the body promise (res.json() or res.text()) has settled as read
BodyRead(q, read) == [ q EXCEPT !.body = read ]

\* responses the server can give: res.ok and res.status
Responses ==
  { [ ok |-> TRUE, status |-> 200 ], [ ok |-> FALSE, status |-> 404 ],
    [ ok |-> FALSE, status |-> 500 ] }

\* a body that is the JSON value null
JsonNull == [ null |-> TRUE ]

IsJsonNull(body) == "null" \in DOMAIN body

\* the JSON values an OK response can carry on each endpoint: an object with
\* the field, with an empty or absent field, or not an object at all
JsonBodies ==
  [ version |-> { [ version |-> Num("0.5.7") ], [ version |-> Num("") ],
                  [ version |-> Null ], JsonNull },
    models |-> { [ models |-> Num(<< "llama3.2:3b" >>) ],
                 [ models |-> Num(<< >>) ], [ models |-> Null ], JsonNull } ]

\* getOllamaVersion: the promise of fetchJson, as it is
getOllamaVersion(q) == q.outcome

\* listOllamaModels: res.models ?? [] on the value fetchJson resolved with;
\* reading .models of null throws
listOllamaModels(q) ==
  IF q.outcome.status = "rejected" THEN q.outcome
  ELSE IF IsJsonNull(q.outcome.value) THEN Rejected(TypeError)
  ELSE IF q.outcome.value.models = Null THEN Fulfilled(<< >>)
  ELSE Fulfilled(Val(q.outcome.value.models))

\* a string used as a condition: null, undefined and '' are falsy
Truthy(o) == o # Null /\ o # Num("")

\* an array used as a condition: null is falsy, every array is truthy
TruthyArray(o) == o # Null

\* disabled={status === 'checking'}
TestButtonDisabled(st) == st = "checking"

\* the user presses Test: runCheck runs up to its await
ClickTest ==
  /\ ~TestButtonDisabled(panel.status)
  /\ panel' = [ status |-> "checking", error |-> Null, version |-> Null,
                models |-> Null ]
  /\ requests' = [ r \in RequestNames |->
                     [ phase |-> "fetch", timer |-> "armed",
                       response |-> Null, body |-> "unread",
                       outcome |-> Null ] ]
  /\ pc' = "awaiting"
  /\ inFlight' = inFlight + 1
  /\ UNCHANGED estimatorVars

\* fetch() resolves with a response: fetchJson goes on to read the body
ResponseArrives ==
  /\ \E r \in RequestNames, res \in Responses :
       /\ requests[r].phase = "fetch"
       /\ requests' = [ requests EXCEPT ![r].phase = "body",
                                        ![r].response = Num(res) ]
  /\ UNCHANGED << panel, pc, inFlight, estimatorVars >>

\* fetch() rejects (connection refused, CORS, mixed content): a TypeError
FetchFails ==
  /\ \E r \in RequestNames :
       /\ requests[r].phase = "fetch"
       /\ requests' = [ requests EXCEPT
                          ![r] = SettleRequest(@,
                                   Rejected(fetchJson_catch(TypeError))) ]
  /\ UNCHANGED << panel, pc, inFlight, estimatorVars >>

\* the body of an OK response is read: res.json() resolves with a JSON value
JsonBodyParsed ==
  /\ \E r \in RequestNames :
       /\ requests[r].phase = "body"
       /\ Val(requests[r].response).ok
       /\ \E body \in JsonBodies[r] :
            requests' = [ requests EXCEPT
                            ![r] = SettleRequest(BodyRead(@, "json"),
                                                 Fulfilled(body)) ]
  /\ UNCHANGED << panel, pc, inFlight, estimatorVars >>

\* the body of an OK response is not JSON: res.json() rejects
JsonBodyInvalid ==
  /\ \E r \in RequestNames :
       /\ requests[r].phase = "body"
       /\ Val(requests[r].response).ok
       /\ requests' = [ requests EXCEPT
                          ![r] = SettleRequest(BodyRead(@, "notJson"),
                                   Rejected(fetchJson_catch(SyntaxError))) ]
  /\ UNCHANGED << panel, pc, inFlight, estimatorVars >>

\* the body of a response that is not OK is read, or fails to be read (the
\* failure is swallowed by .catch(() => '')): the http error is thrown
ErrorBodyRead ==
  /\ \E r \in RequestNames :
       /\ requests[r].phase = "body"
       /\ ~Val(requests[r].response).ok
       /\ requests' = [ requests EXCEPT
                          ![r] = SettleRequest(BodyRead(@, "text"),
                                   Rejected(fetchJson_catch(
                                     HttpError(Val(requests[r].response))))) ]
  /\ UNCHANGED << panel, pc, inFlight, estimatorVars >>

\* the timer of a request fires and aborts it: the pending promise rejects
\* with an AbortError.  Both timers are armed in the same turn, so the shorter
\* one fires first.
TimerFires ==
  /\ \E r \in RequestNames :
       /\ requests[r].timer = "armed"
       /\ \A o \in RequestNames :
            requests[o].timer = "armed" =>
              RequestTimeoutMs[r] <= RequestTimeoutMs[o]
       /\ LET q == [ requests[r] EXCEPT !.timer = "fired" ]
              thrown == IF q.phase = "body" /\ ~Val(q.response).ok
                        THEN HttpError(Val(q.response))
                        ELSE AbortError
          IN  requests' =
                [ requests EXCEPT
                    ![r] = IF q.phase \in { "fetch", "body" }
                           THEN SettleRequest(q, Rejected(fetchJson_catch(thrown)))
                           ELSE q ]
  /\ UNCHANGED << panel, pc, inFlight, estimatorVars >>

\* const err = v.status === 'rejected' ? v.reason : m.status === 'rejected' ?
\* m.reason : null
FirstError(v, m) ==
  IF v.status = "rejected" THEN Num(v.reason)
  ELSE IF m.status = "rejected" THEN Num(m.reason)
  ELSE Null

\* Promise.allSettled resolves and runCheck runs to its end; reading
\* v.value.version of a null value throws, and runCheck ends there
RunCheckResumes ==
  /\ pc = "awaiting"
  /\ \A r \in RequestNames : requests[r].phase = "settled"
  /\ LET v == getOllamaVersion(requests.version)
         m == listOllamaModels(requests.models)
         nextVersion == IF v.status = "fulfilled" /\ ~IsJsonNull(v.value)
                        THEN v.value.version ELSE Null
         nextModels == IF m.status = "fulfilled" THEN Num(m.value) ELSE Null
         err == FirstError(v, m)
         shown == [ panel EXCEPT
                      !.version = IF Truthy(nextVersion) THEN nextVersion ELSE @,
                      !.models = IF TruthyArray(nextModels) THEN nextModels ELSE @ ]
     IN  IF v.status = "fulfilled" /\ IsJsonNull(v.value)
         THEN /\ pc' = "threw"
              /\ panel' = panel
         ELSE /\ pc' = "idle"
              /\ panel' =
                   IF ~Truthy(nextVersion) /\ ~TruthyArray(nextModels)
                   THEN [ shown EXCEPT
                            !.status = "error",
                            !.error = IF err # Null THEN err
                                      ELSE Num([ kind |-> "unknown" ]) ]
                   ELSE IF err # Null
                   THEN [ shown EXCEPT !.status = "error", !.error = err ]
                   ELSE [ shown EXCEPT !.status = "ok" ]
  /\ inFlight' = inFlight - 1
  /\ UNCHANGED << requests, estimatorVars >>

NextPanel ==
  \/ ClickTest
  \/ ResponseArrives
  \/ FetchFails
  \/ JsonBodyParsed
  \/ JsonBodyInvalid
  \/ ErrorBodyRead
  \/ TimerFires
  \/ RunCheckResumes

SpecPanel == Init /\ [][NextPanel]_vars

\* the browser runs every armed timer and every continuation that is ready
SpecPanelFair ==
  /\ SpecPanel
  /\ WF_vars(TimerFires)
  /\ WF_vars(RunCheckResumes)

----------------------------------------------------------------------------
(* The model catalog: OLLAMA_MODELS = mergeModels(CURATED_MODELS,
   transformScrapedModels(SCRAPED_OLLAMA_MODELS)).

   Sizes in billions of parameters are kept in thousandths (8b = 8000) and
   download sizes in tenths of a GB. *)

MaxCurated == 2
MaxScraped == 2

\* c.toLowerCase() on the capability names of the model
LowerCaseOf == [ Vision |-> "vision", Tools |-> "tools", Thinking |-> "thinking" ]

toLowerCase(c) == IF c \in DOMAIN LowerCaseOf THEN LowerCaseOf[c] ELSE c

Includes(list, x) == \E i \in 1..Len(list) : list[i] = x

\* mutant: tools is tested before the other capabilities
inferCategory_ToolsFirst(capabilities) ==
  LET caps == [ i \in 1..Len(capabilities) |-> toLowerCase(capabilities[i]) ]
  IN  IF Includes(caps, "tools") THEN "tools"
      ELSE IF Includes(caps, "embedding") THEN "embedding"
      ELSE IF Includes(caps, "vision") THEN "vision"
      ELSE IF Includes(caps, "thinking") THEN "thinking"
      ELSE "general"

inferCategory(capabilities) ==
  LET caps == [ i \in 1..Len(capabilities) |-> toLowerCase(capabilities[i]) ]
  IN  IF Includes(caps, "embedding") THEN "embedding"
      ELSE IF Includes(caps, "vision") THEN "vision"
      ELSE IF Includes(caps, "thinking") THEN "thinking"
      ELSE IF Includes(caps, "tools") THEN "tools"
      ELSE "general"

\* parseSize on the size strings of the model, in thousandths of a billion
parseSize(sizeStr) ==
  CASE sizeStr = "1.5b" -> 1500
    [] sizeStr = "7b" -> 7000
    [] sizeStr = "8b" -> 8000
    [] sizeStr = "70b" -> 70000

\* inferPublisher on the slugs of the model: the first matching pattern of
\* PUBLISHER_PATTERNS
inferPublisher(slug) ==
  CASE slug = "llama3.1" -> "Meta"
    [] slug = "codellama" -> "Meta"
    [] slug = "deepseek-r1" -> "DeepSeek"
    [] slug = "mathstral" -> "Mistral AI"
    [] slug = "nomic-embed-text" -> "Nomic AI"
    [] slug = "llava" -> "LLaVA Team"
    [] OTHER -> "Community"

\* publisher.split(' ')[0].toLowerCase()
PublisherTag(publisher) ==
  CASE publisher = "Meta" -> "meta"
    [] publisher = "DeepSeek" -> "deepseek"
    [] publisher = "Mistral AI" -> "mistral"
    [] publisher = "Nomic AI" -> "nomic"
    [] publisher = "LLaVA Team" -> "llava"
    [] OTHER -> "community"

generateVariant(sizeStr, isDefault) ==
  LET paramsB == parseSize(sizeStr)
      sizeGB == (paramsB * 55 + 5000) \div 10000
      context == IF paramsB >= 70000 THEN 4096
                 ELSE IF paramsB >= 30000 THEN 8192
                 ELSE IF paramsB <= 1000 THEN 4096
                 ELSE IF paramsB <= 3000 THEN 8192
                 ELSE 4096
  IN  [ tag |-> sizeStr, paramsB |-> paramsB,
        sizeGB |-> IF sizeGB < 1 THEN 1 ELSE sizeGB, quant |-> "Q4_K_M",
        context |-> context, isDefault |-> isDefault ]

inferTags(model) ==
  LET publisher == inferPublisher(model.slug)
  IN  (IF publisher # "Community" THEN << PublisherTag(publisher) >> ELSE << >>)
        \o (IF \E i \in 1..Len(model.sizes) : parseSize(model.sizes[i]) <= 3000
            THEN << "small", "lightweight" >> ELSE << >>)
        \o (IF \E i \in 1..Len(model.sizes) : parseSize(model.sizes[i]) >= 70000
            THEN << "large" >> ELSE << >>)

transformScrapedModel(scraped) ==
  [ slug |-> scraped.slug,
    name |-> scraped.name,
    description |-> scraped.description,
    category |-> inferCategory(scraped.capabilities),
    publisher |-> inferPublisher(scraped.slug),
    variants |-> IF Len(scraped.sizes) > 0
                 THEN [ idx \in 1..Len(scraped.sizes) |->
                          generateVariant(scraped.sizes[idx], idx = 1) ]
                 ELSE << generateVariant("7b", TRUE) >>,
    tags |-> scraped.capabilities \o inferTags(scraped),
    pulls |-> scraped.pulls,
    updated |-> scraped.updated ]

transformScrapedModels(scraped) ==
  [ i \in 1..Len(scraped) |-> transformScrapedModel(scraped[i]) ]

\* parsePulls on the pull counts of the model; a missing count is '0'
parsePulls(pullStr) ==
  CASE pullStr = "108M" -> 108000000
    [] pullStr = "45M" -> 45000000
    [] pullStr = "2.5M" -> 2500000
    [] pullStr = "900K" -> 900000
    [] OTHER -> 0

\* the comparator of merged.sort
ComparePulls(a, b) == parsePulls(b.pulls) - parsePulls(a.pulls)

RECURSIVE InsertByPulls(_, _)
InsertByPulls(x, s) ==
  IF s = << >> THEN << x >>
  ELSE IF ComparePulls(x, s[1]) > 0
       THEN << s[1] >> \o InsertByPulls(x, Tail(s))
       ELSE << x >> \o s

\* merged.sort((a, b) => ...); Array.prototype.sort is stable
RECURSIVE SortByPulls(_)
SortByPulls(s) ==
  IF s = << >> THEN << >>
  ELSE InsertByPulls(s[1], SortByPulls(Tail(s)))

\* curatedBySlug.get(slug): a Map built from [slug, entry] pairs keeps the
\* last entry of a slug
CuratedBySlug(curated, slug) ==
  LET at == { i \in 1..Len(curated) : curated[i].slug = slug }
  IN  IF at = {} THEN Null
      ELSE Num(curated[CHOOSE i \in at : \A j \in at : j <= i])

\* mutant: a scraped-backed entry keeps the category and tags of its curated
\* entry
mergeModels_CuratedCategory(curated, transformed) ==
  LET mergedT == [ i \in 1..Len(transformed) |->
                     LET t == transformed[i]
                         c == CuratedBySlug(curated, t.slug)
                     IN  IF c = Null THEN t
                         ELSE [ Val(c) EXCEPT !.pulls = t.pulls,
                                              !.updated = t.updated ] ]
      NotScraped(c) == \A i \in 1..Len(transformed) : transformed[i].slug # c.slug
      only == SelectSeq(curated, NotScraped)
      mergedC == [ i \in 1..Len(only) |->
                     [ only[i] EXCEPT !.category = "general", !.tags = << >> ] ]
  IN  SortByPulls(mergedT \o mergedC)

mergeModels(curated, transformed) ==
  LET mergedT == [ i \in 1..Len(transformed) |->
                     LET t == transformed[i]
                         c == CuratedBySlug(curated, t.slug)
                     IN  IF c = Null THEN t
                         ELSE [ slug |-> t.slug,
                                name |-> Val(c).name,
                                description |-> Val(c).description,
                                publisher |-> Val(c).publisher,
                                variants |-> Val(c).variants,
                                category |-> t.category,
                                tags |-> t.tags,
                                pulls |-> t.pulls,
                                updated |-> t.updated ] ]
      NotScraped(c) == \A i \in 1..Len(transformed) : transformed[i].slug # c.slug
      only == SelectSeq(curated, NotScraped)
      mergedC == [ i \in 1..Len(only) |->
                     [ only[i] EXCEPT !.category = "general", !.tags = << >> ] ]
  IN  SortByPulls(mergedT \o mergedC)

\* entries as CURATED_MODELS writes them: hand-written categories, among them
\* 'code', 'math' and 'reasoning'
CuratedPool ==
  { [ slug |-> "llama3.1", name |-> "Llama 3.1", description |-> "curated",
      category |-> "general", publisher |-> "Meta", pulls |-> "45M",
      updated |-> "2024-07", tags |-> << "meta", "llama" >>,
      variants |-> << [ tag |-> "8b", paramsB |-> 8000, sizeGB |-> 47,
                        quant |-> "Q4_K_M", context |-> 131072,
                        isDefault |-> TRUE ] >> ],
    [ slug |-> "deepseek-r1", name |-> "DeepSeek R1", description |-> "curated",
      category |-> "reasoning", publisher |-> "DeepSeek", pulls |-> "2.5M",
      updated |-> "2025-01", tags |-> << "deepseek", "reasoning" >>,
      variants |-> << [ tag |-> "7b", paramsB |-> 7000, sizeGB |-> 47,
                        quant |-> "Q4_K_M", context |-> 131072,
                        isDefault |-> TRUE ] >> ],
    [ slug |-> "codellama", name |-> "Code Llama", description |-> "curated",
      category |-> "code", publisher |-> "Meta", pulls |-> "900K",
      updated |-> "2024-01", tags |-> << "meta", "code" >>,
      variants |-> << [ tag |-> "7b", paramsB |-> 7000, sizeGB |-> 38,
                        quant |-> "Q4_K_M", context |-> 16384,
                        isDefault |-> TRUE ] >> ],
    [ slug |-> "mathstral", name |-> "Mathstral", description |-> "curated",
      category |-> "math", publisher |-> "Mistral AI", pulls |-> "",
      updated |-> "2024-07", tags |-> << "mistral", "math" >>,
      variants |-> << [ tag |-> "7b", paramsB |-> 7000, sizeGB |-> 41,
                        quant |-> "Q4_K_M", context |-> 32768,
                        isDefault |-> TRUE ] >> ] }

\* entries as the scraper writes them (ScrapedOllamaModel)
ScrapedPool ==
  { [ slug |-> "llama3.1", name |-> "Llama3.1", description |-> "scraped",
      capabilities |-> << "tools" >>, sizes |-> << "8b", "70b" >>,
      pulls |-> "108M", updated |-> "Dec 6, 2024" ],
    [ slug |-> "deepseek-r1", name |-> "Deepseek R1", description |-> "scraped",
      capabilities |-> << "tools", "thinking" >>, sizes |-> << "1.5b", "70b" >>,
      pulls |-> "45M", updated |-> "Jan 20, 2025" ],
    [ slug |-> "nomic-embed-text", name |-> "Nomic Embed Text",
      description |-> "scraped", capabilities |-> << "embedding" >>,
      sizes |-> << >>, pulls |-> "45M", updated |-> "Feb 21, 2024" ],
    [ slug |-> "llava", name |-> "Llava", description |-> "scraped",
      capabilities |-> << "Tools", "Vision", "cloud" >>, sizes |-> << "7b" >>,
      pulls |-> "2.5M", updated |-> "Feb 1, 2024" ],
    [ slug |-> "codellama", name |-> "Codellama", description |-> "scraped",
      capabilities |-> << >>, sizes |-> << "7b", "70b" >>,
      pulls |-> "900K", updated |-> "Jul 18, 2024" ] }

CuratedLists == SeqsUpTo(CuratedPool, MaxCurated)

ScrapedLists == SeqsUpTo(ScrapedPool, MaxScraped)

Call_mergeModels ==
  /\ call = "idle"
  /\ \E curated \in CuratedLists, scraped \in ScrapedLists :
       /\ args' = [ curated |-> curated, scraped |-> scraped ]
       /\ ret' = mergeModels(curated, transformScrapedModels(scraped))
  /\ call' = "mergeModels"
  /\ caller' = Idle
  /\ UNCHANGED << tables, panelVars >>

NextCatalog ==
  \/ Call_mergeModels
  \/ Discard

SpecCatalog == Init /\ [][NextCatalog]_vars

----------------------------------------------------------------------------
(* Claims *)

\* the platform class a call's isMobile / platform options select
ClassOf(isMobile, platform) ==
  IF isMobile THEN "mobile"
  ELSE IF platform = "undefined" THEN "default" ELSE platform

\* the usable RAM of a verdict call's arguments
UsableOf(a) ==
  estimateUsableRamGB(Val(a.ramGB), a.isMobile, a.platform).usableRamGB

\* the RAM figure of a call is a number the code accepts (neither null nor 0)
RamGiven(a) == a.ramGB # Null /\ a.ramGB # Num(0)

\* C1: the estimate estimateVariantMemoryGB returns, for every variant and
\* every context override, has totalGB = weightsGB + kvCacheGB +
\* runtimeOverheadGB exactly.
C1_Decomposition ==
  call = "estimateVariantMemoryGB" =>
    ret.totalGB = ret.weightsGB + ret.kvCacheGB + ret.runtimeOverheadGB

\* an estimate with a context override whose three terms are all positive
C1_Witness ==
  /\ call = "estimateVariantMemoryGB"
  /\ args.contextTokens = Num(32768)
  /\ ret.weightsGB > 0 /\ ret.kvCacheGB > 0 /\ ret.runtimeOverheadGB > 0
  /\ ret.totalGB > ret.weightsGB + ret.kvCacheGB

\* C2: with RAM given, getVariantVerdict reports headroom = usable RAM -
\* estimate total and classifies it top-down with inclusive lower bounds:
\* >= 2.0 run/YES, else >= 0.5 maybe/TIGHT, else >= -1.5 maybe/MAYBE, else
\* no/NO.
C2_Thresholds ==
  (call = "getVariantVerdict" /\ RamGiven(args)) =>
    LET h == UsableOf(args) - ret.estimate.totalGB
    IN  /\ ret.headroomGB = Num(h)
        /\ 2 * h >= 4 * Unit => (ret.status = "run" /\ ret.stamp = "YES")
        /\ (2 * h < 4 * Unit /\ 2 * h >= Unit) =>
             (ret.status = "maybe" /\ ret.stamp = "TIGHT")
        /\ (2 * h < Unit /\ 2 * h >= 0 - 3 * Unit) =>
             (ret.status = "maybe" /\ ret.stamp = "MAYBE")
        /\ 2 * h < 0 - 3 * Unit => (ret.status = "no" /\ ret.stamp = "NO")

\* a headroom of exactly 2.0 GB, classified comfortable
C2_Witness ==
  /\ call = "getVariantVerdict"
  /\ RamGiven(args)
  /\ ret.headroomGB = Num(2 * Unit)
  /\ ret.stamp = "YES"

\* the other boundary cases of C2 are reachable too
C2_WitnessTight ==
  call = "getVariantVerdict" /\ 2 * Val(ret.headroomGB) = Unit
    /\ ret.headroomGB # Null /\ ret.stamp = "TIGHT"
C2_WitnessMaybe ==
  call = "getVariantVerdict" /\ 2 * Val(ret.headroomGB) = 0 - 3 * Unit
    /\ ret.headroomGB # Null /\ ret.stamp = "MAYBE"
C2_WitnessNo ==
  call = "getVariantVerdict" /\ ret.headroomGB # Null
    /\ 2 * Val(ret.headroomGB) < 0 - 3 * Unit
    /\ 2 * Val(ret.headroomGB) > 0 - 4 * Unit /\ ret.stamp = "NO"

ClassifyingCalls ==
  { "getVariantVerdict", "getFullVariantVerdict", "getQuantCellVerdict" }

C5_Table ==
  [ macos |-> << 30, 15 >>, windows |-> << 35, 20 >>, linux |-> << 15, 10 >>,
    mobile |-> << 20, 30 >>, default |-> << 30, 20 >> ]

\* C5: estimateUsableRamGB returns assumedReserveGB = clamp(base + ram *
\* percent, 2.5, 16) and usableRamGB = max(1, ram - assumedReserveGB), so
\* 2.5 <= assumedReserveGB <= 16 and usableRamGB >= 1.
C5_UsableRam ==
  call = "estimateUsableRamGB" =>
    LET row == C5_Table[ClassOf(args.isMobile, args.platform)]
        \* base + ram * percent (every RAM figure is a multiple of 100 units)
        raw == (row[1] * Unit) \div 10 + (args.ramGB \div 100) * row[2]
        reserve == ret.assumedReserveGB
        usable == ret.usableRamGB
    IN  /\ 2 * reserve >= 5 * Unit /\ reserve <= 16 * Unit
        /\ usable >= Unit
        /\ 2 * raw < 5 * Unit => 2 * reserve = 5 * Unit
        /\ raw > 16 * Unit => reserve = 16 * Unit
        /\ (2 * raw >= 5 * Unit /\ raw <= 16 * Unit) => reserve = raw
        /\ args.ramGB - reserve < Unit => usable = Unit
        /\ args.ramGB - reserve >= Unit => usable = args.ramGB - reserve

\* both floors active: a 2 GB Linux host reserves 2.5 GB and keeps 1 GB usable
C5_Witness ==
  /\ call = "estimateUsableRamGB"
  /\ args.ramGB = GB(2, 1) /\ ~args.isMobile /\ args.platform = "linux"
  /\ 2 * ret.assumedReserveGB = 5 * Unit
  /\ ret.usableRamGB = Unit

\* the ceiling active on a 256 GB host
C5_WitnessCeiling ==
  /\ call = "estimateUsableRamGB"
  /\ args.ramGB = GB(256, 1)
  /\ ret.assumedReserveGB = 16 * Unit
  /\ ret.usableRamGB = 240 * Unit


\* C6: a 7B variant of 4.7 GB with context 8192, evaluated by default with
\* 16 GB on a desktop-class platform, has weightsGB = 4.935, kvCacheGB > 0,
\* 1.0 <= runtimeOverheadGB <= 6.0 and a comfortable or tight verdict.
C6_SevenBOnSixteenGB ==
  ( /\ call = "getVariantVerdict"
    /\ args.variant.paramsB = 7 * Unit
    /\ 10 * args.variant.sizeGB = 47 * Unit
    /\ args.variant.context = 8192
    /\ args.contextTokens = Null
    /\ args.ramGB = Num(16 * Unit)
    /\ ~args.isMobile
    /\ args.platform \in { "macos", "windows", "linux", "default", "undefined" } )
  =>
    /\ ret.estimate.weightsGB = 4935 * (Unit \div 1000)
    /\ ret.estimate.kvCacheGB > 0
    /\ ret.estimate.runtimeOverheadGB >= Unit
    /\ ret.estimate.runtimeOverheadGB <= 6 * Unit
    /\ ret.stamp \in { "YES", "TIGHT" }

\* the scenario on Windows, the desktop class with the largest reserve
C6_Witness ==
  /\ call = "getVariantVerdict"
  /\ args.variant.paramsB = 7 * Unit
  /\ 10 * args.variant.sizeGB = 47 * Unit
  /\ args.variant.context = 8192
  /\ args.contextTokens = Null
  /\ args.ramGB = Num(16 * Unit)
  /\ ~args.isMobile /\ args.platform = "windows"
  /\ ret.stamp = "YES"
  /\ ret.headroomGB = Num(2245 * (Unit \div 1000))

\* the quick verdict getBestRunnableVariant computes for a variant
VerdictIn(a, variant) ==
  getVariantVerdict(variant, a.ramGB, Null, a.isMobile, a.platform)

\* positions of the list whose variant has the given status
WithStatus(a, status) ==
  { i \in 1..Len(a.variants) : VerdictIn(a, a.variants[i]).status = status }

\* the position descending-paramsB order visits first among I: the largest
\* paramsB, and among equal paramsB the earliest of the list
FirstVisited(a, I) ==
  CHOOSE i \in I :
    \A j \in I :
      \/ a.variants[j].paramsB < a.variants[i].paramsB
      \/ (a.variants[j].paramsB = a.variants[i].paramsB /\ i <= j)

C7_WitnessSecondPass ==
  /\ call = "getBestRunnableVariant"
  /\ ret # Null
  /\ Val(ret).verdict.stamp = "MAYBE"
  /\ \E i \in 1..Len(args.variants) :
       /\ VerdictIn(args, args.variants[i]).stamp = "TIGHT"
       /\ args.variants[i].paramsB < Val(ret).variant.paramsB

\* C8: getBestRunnableVariant returns null if and only if the RAM figure is
\* absent or no variant of the list (possibly empty) classifies better than
\* "no"; it never returns a variant whose verdict is "no".
C8_BestNullIff ==
  call = "getBestRunnableVariant" =>
    /\ ret = Null <=>
         \/ ~RamGiven(args)
         \/ \A i \in 1..Len(args.variants) :
              VerdictIn(args, args.variants[i]).status = "no"
    /\ ret # Null =>
         /\ Val(ret).verdict.status # "no"
         /\ \E i \in 1..Len(args.variants) : args.variants[i] = Val(ret).variant

\* null for a non-empty list with RAM given: every variant is too big
C8_Witness ==
  /\ call = "getBestRunnableVariant"
  /\ RamGiven(args)
  /\ Len(args.variants) = 2
  /\ ret = Null

SyntheticVariant(paramsB, quant) ==
  [ tag |-> "synthetic", paramsB |-> paramsB,
    sizeGB |-> estimateQuantSizeGB(paramsB, quant), quant |-> quant,
    context |-> 4096 ]

\* C10: for RAM given, getQuantCellVerdict returns sizeGB =
\* estimateQuantSizeGB(paramsB, quant), totalMemoryGB = the totalGB of
\* estimateVariantMemoryGB for a variant of that size at context c (4096 when
\* omitted), and the status and headroom of getVariantVerdict on that variant
\* with contextTokens = c.
C10_CellIsPipeline ==
  (call = "getQuantCellVerdict" /\ RamGiven(args)) =>
    LET c == IF args.context = Null THEN Num(4096) ELSE args.context
        variant == SyntheticVariant(args.paramsB, args.quant)
        quick == getVariantVerdict(variant, args.ramGB, c, args.isMobile,
                                   args.platform)
    IN  /\ ret.sizeGB = estimateQuantSizeGB(args.paramsB, args.quant)
        /\ ret.totalMemoryGB = estimateVariantMemoryGB(variant, c).totalGB
        /\ ret.status = quick.status
        /\ ret.headroomGB = quick.headroomGB

\* a cell computed at the default context whose quick verdict is tight
C10_Witness ==
  /\ call = "getQuantCellVerdict"
  /\ RamGiven(args)
  /\ args.context = Null
  /\ args.quant = "Q8_0"
  /\ ret.status = "maybe"
  /\ ret.headroomGB # Null
  /\ 2 * Val(ret.headroomGB) >= Unit

\* a number below zero replaced by zero
ZeroIfNegative(x) == Max2(0, x)

\* the variant / the override with every negative field replaced by zero
NegativesZeroed(variant) ==
  [ variant EXCEPT !.paramsB = ZeroIfNegative(@),
                   !.sizeGB = ZeroIfNegative(@),
                   !.context = ZeroIfNegative(@) ]
OverrideZeroed(contextTokens) ==
  IF contextTokens = Null THEN Null ELSE Num(ZeroIfNegative(Val(contextTokens)))

\* C11: estimateVariantMemoryGB treats a negative paramsB, sizeGB, context or
\* context override as zero: the four fields of the result are non-negative
\* and are those of the estimate of the same arguments with every negative
\* field replaced by 0.
C11_NegativesAsZero ==
  call = "estimateVariantMemoryGB" =>
    /\ ret.weightsGB >= 0
    /\ ret.kvCacheGB >= 0
    /\ ret.runtimeOverheadGB >= 0
    /\ ret.totalGB >= 0
    /\ ret = estimateVariantMemoryGB(NegativesZeroed(args.variant),
                                     OverrideZeroed(args.contextTokens))

\* C12: estimateQuantSizeGB returns paramsB x bytesPerParam(quant) for every
\* quantization key in the catalog, and for a key that is not in the catalog
\* the caller gets a typed UnknownQuantization failure back: no default is
\* substituted and no fault is thrown.
C12_TypedUnknownQuantization ==
  call = "estimateQuantSizeGB" =>
    IF args.quant \in AllQuants
    THEN /\ ret.kind = "return"
         /\ ret.value
              = (args.paramsB \div 100) * QUANT_CONFIGS[args.quant].bytesPerParam
    ELSE /\ ret.kind = "failure"
         /\ ret.error = "UnknownQuantization"

\* the bit-width a quantization key names
BitWidth(quant) ==
  CASE quant = "Q2_K" -> 2
    [] quant = "Q3_K_M" -> 3
    [] quant = "Q4_0" -> 4
    [] quant = "Q4_K_M" -> 4
    [] quant = "Q5_K_M" -> 5
    [] quant = "Q6_K" -> 6
    [] quant = "Q8_0" -> 8
    [] quant = "F16" -> 16

\* bytesPerParam is strictly increasing in the bit-width over the catalog
BytesPerParamIncreasing ==
  \A q1 \in AllQuants, q2 \in AllQuants :
    BitWidth(q1) < BitWidth(q2) =>
      QUANT_CONFIGS[q1].bytesPerParam < QUANT_CONFIGS[q2].bytesPerParam

\* C13 as stated: for every legal paramsB (0 included) and catalog keys q1, q2
\* with q2 of the larger bit-width, estimateQuantSizeGB(p, q1) is strictly
\* smaller than estimateQuantSizeGB(p, q2).
C13_Original ==
  call = "estimateQuantSizeGB" /\ ret.kind = "return" =>
    /\ BytesPerParamIncreasing
    /\ \A q2 \in AllQuants :
         BitWidth(args.quant) < BitWidth(q2) =>
           ret.value < estimateQuantSizeGB(args.paramsB, q2)

\* C13: bytesPerParam is strictly increasing in the bit-width; for every
\* paramsB > 0 and catalog keys q1, q2 with q2 of the larger bit-width,
\* estimateQuantSizeGB(p, q1) < estimateQuantSizeGB(p, q2), and for
\* paramsB = 0 every quantization has size 0.
C13_StrictForPositiveParams ==
  call = "estimateQuantSizeGB" /\ ret.kind = "return" =>
    /\ BytesPerParamIncreasing
    /\ args.paramsB > 0 =>
         \A q2 \in AllQuants :
           BitWidth(args.quant) < BitWidth(q2) =>
             ret.value < estimateQuantSizeGB(args.paramsB, q2)
    /\ args.paramsB = 0 => ret.value = 0

\* a 7B model at Q4_K_M is 3.85 GB, below its Q5_K_M size of 4.76 GB
C13_Witness ==
  /\ call = "estimateQuantSizeGB"
  /\ args.paramsB = GB(7, 1)
  /\ args.quant = "Q4_K_M"
  /\ ret.kind = "return"
  /\ ret.value = 385 * (Unit \div 100)
  /\ estimateQuantSizeGB(args.paramsB, "Q5_K_M") = 476 * (Unit \div 100)

\* with no parameters every quantization is 0 GB
C13_WitnessZero ==
  /\ call = "estimateQuantSizeGB"
  /\ args.paramsB = 0
  /\ args.quant = "Q2_K"
  /\ ret.kind = "return"
  /\ ret.value = estimateQuantSizeGB(0, "F16")

\* C14: the weights term of estimateVariantMemoryGB is sizeGB x 1.05 when the
\* variant's sizeGB is above 0, and otherwise paramsB x bytesPerParam(Q4_K_M)
\* x 1.05 = paramsB x 0.5775; the variant's context and the context override
\* have no influence on weightsGB.
C14_WeightsTerm ==
  call = "estimateVariantMemoryGB" =>
    /\ args.variant.sizeGB > 0 =>
         ret.weightsGB = (args.variant.sizeGB \div 100) * 105
    /\ args.variant.sizeGB = 0 =>
         ret.weightsGB = (args.variant.paramsB \div 400) * 231
    /\ \A c \in ContextValues, o \in ContextArgs :
         estimateVariantMemoryGB([ args.variant EXCEPT !.context = c ],
                                 o).weightsGB = ret.weightsGB

\* a 7B variant with no size on record and a 32K override: weights
\* 8085/2000 = 4.0425 GB
C14_Witness ==
  /\ call = "estimateVariantMemoryGB"
  /\ args.variant.sizeGB = 0
  /\ args.variant.paramsB = GB(7, 1)
  /\ args.contextTokens = Num(32768)
  /\ ret.weightsGB = 8085 * (Unit \div 2000)

\* a variant with 4.7 GB on disk: weights 4.935 GB whatever the parameter count
C14_WitnessSize ==
  /\ call = "estimateVariantMemoryGB"
  /\ args.variant.sizeGB = GB(47, 10)
  /\ args.variant.paramsB = GB(35, 1)
  /\ ret.weightsGB = 4935 * (Unit \div 1000)

\* the context length the KV-cache term of a call is computed for
EffectiveContext(a) ==
  IF a.contextTokens # Null THEN Val(a.contextTokens)
  ELSE IF a.variant.context >= 8192 THEN 8192
  ELSE a.variant.context

\* C15: the KV-cache term is (effectiveContext / 1024) x
\* kvGBPer1kTokens(paramsB), where effectiveContext is the override, taken as
\* it is with no cap, when one is given, and min(variant.context, 8192)
\* otherwise; so without an override two variants that differ only in a
\* context of 8192 or more get the same estimate, and kvCacheGB is linear in
\* the effective context.
C15_KvCacheTerm ==
  call = "estimateVariantMemoryGB" =>
    LET eff == EffectiveContext(args)
        per1k == kvGBPer1kTokens(args.variant.paramsB)
    IN  /\ ret.kvCacheGB = (per1k \div 1024) * eff
        /\ estimateVariantMemoryGB(args.variant, Num(2 * eff)).kvCacheGB
             = 2 * ret.kvCacheGB
        /\ args.contextTokens = Null /\ args.variant.context >= 8192 =>
             \A c \in ContextValues :
               c >= 8192 =>
                 estimateVariantMemoryGB([ args.variant EXCEPT !.context = c ],
                                         Null) = ret

\* a 32K override on a 7B variant with a 2K context: 32 x 0.08 = 2.56 GB
C15_Witness ==
  /\ call = "estimateVariantMemoryGB"
  /\ args.variant.paramsB = GB(7, 1)
  /\ args.variant.context = 2048
  /\ args.contextTokens = Num(32768)
  /\ ret.kvCacheGB = GB(256, 100)

\* a 128K variant without override is evaluated at 8K: 8 x 0.08 = 0.64 GB
C15_WitnessCapped ==
  /\ call = "estimateVariantMemoryGB"
  /\ args.variant.paramsB = GB(7, 1)
  /\ args.variant.context = 131072
  /\ args.contextTokens = Null
  /\ ret.kvCacheGB = GB(64, 100)

\* the steps of the KV-cache figure: << breakpoint in billions of parameters,
\* GB per 1K tokens in hundredths >>, followed by the figure above the last
\* breakpoint
KvSteps ==
  << <<1, 3>>, <<3, 6>>, <<8, 8>>, <<14, 12>>, <<35, 20>>, <<72, 35>>,
     <<200, 50>>, <<0, 80>> >>

\* the figure of the lowest step whose breakpoint is not below paramsB
KvStepValue(paramsB) ==
  LET reached == { i \in 1..(Len(KvSteps) - 1) : paramsB <= GB(KvSteps[i][1], 1) }
      step == IF reached = { } THEN Len(KvSteps)
              ELSE CHOOSE i \in reached : \A j \in reached : i <= j
  IN  GB(KvSteps[step][2], 100)

C16_WitnessTop ==
  /\ call = "kvGBPer1kTokens"
  /\ args.paramsB = GB(405, 1)
  /\ ret = GB(80, 100)

\* clamp(1.2 + paramsB x 0.04, 1.0, 6.0), written out
OverheadFormula(paramsB) ==
  LET raw == GB(12, 10) + (paramsB \div 100) * 4
  IN  IF raw < GB(1, 1) THEN GB(1, 1)
      ELSE IF raw > GB(6, 1) THEN GB(6, 1)
      ELSE raw

\* the overhead contained in the total of a getQuantCellVerdict result
CellOverheadGB(a, r) ==
  LET ctx == IF a.context = Null THEN 4096 ELSE Val(a.context)
  IN  r.totalMemoryGB - MulRatio(r.sizeGB, 105, 100)
        - (kvGBPer1kTokens(a.paramsB) \div 1024) * ctx

\* C17: the runtime overhead is clamp(1.2 + paramsB x 0.04, 1.0, 6.0): for
\* every paramsB >= 0, 0 included, it lies in [1.0, 6.0], it is non-decreasing
\* in paramsB, and it is at the 6.0 ceiling exactly from paramsB = 120 upward;
\* the overhead inside getQuantCellVerdict obeys the same formula and bounds.
C17_RuntimeOverhead ==
  /\ call = "estimateVariantMemoryGB" =>
       /\ ret.runtimeOverheadGB = OverheadFormula(args.variant.paramsB)
       /\ GB(1, 1) <= ret.runtimeOverheadGB
       /\ ret.runtimeOverheadGB <= GB(6, 1)
       /\ ret.runtimeOverheadGB = GB(6, 1) <=> args.variant.paramsB >= GB(120, 1)
       /\ \A p \in ParamsBValues \cup KneeParamsBValues :
            args.variant.paramsB <= p =>
              ret.runtimeOverheadGB
                <= estimateVariantMemoryGB([ args.variant EXCEPT !.paramsB = p ],
                                           args.contextTokens).runtimeOverheadGB
  /\ call = "getQuantCellVerdict" =>
       /\ CellOverheadGB(args, ret) = OverheadFormula(args.paramsB)
       /\ GB(1, 1) <= CellOverheadGB(args, ret)
       /\ CellOverheadGB(args, ret) <= GB(6, 1)

\* 120B is where the ceiling is reached: 6.0 GB, against 5.98 GB at 119.5B
C17_Witness ==
  /\ call = "estimateVariantMemoryGB"
  /\ args.variant.paramsB = GB(120, 1)
  /\ ret.runtimeOverheadGB = GB(6, 1)
  /\ estimateVariantMemoryGB([ args.variant EXCEPT !.paramsB = GB(239, 2) ],
                             args.contextTokens).runtimeOverheadGB
       = GB(598, 100)

\* a variant with no parameters still carries the 1.2 GB base
C17_WitnessZero ==
  /\ call = "estimateVariantMemoryGB"
  /\ args.variant.paramsB = 0
  /\ ret.runtimeOverheadGB = GB(12, 10)

\* a 200B cell carries the capped 6.0 GB
C17_WitnessCell ==
  /\ call = "getQuantCellVerdict"
  /\ args.paramsB = GB(200, 1)
  /\ CellOverheadGB(args, ret) = GB(6, 1)

\* the rearrangements of a list
Rearrangements(s) ==
  IF s = << >> THEN { << >> }
  ELSE LET elems == { s[i] : i \in 1..Len(s) }
           Count(t, x) == Cardinality({ i \in 1..Len(t) : t[i] = x })
       IN  { t \in [ 1..Len(s) -> elems ] :
             \A x \in elems : Count(t, x) = Count(s, x) }

\* C19: when candidates have equal paramsB, getBestRunnableVariant breaks the
\* tie by a key of the variants themselves, so the variant and verdict it
\* returns are the same for every rearrangement of the input list.
C19_OrderIndependent ==
  call = "getBestRunnableVariant" =>
    \A t \in Rearrangements(args.variants) :
      getBestRunnableVariant(t, args.ramGB, args.isMobile, args.platform) = ret

\* the platform classes other than linux
OtherClasses == Platforms \ { "linux" }

\* C20: linux is the lowest-overhead class: its base reserve and its reserve
\* fraction are both strictly smaller than those of macos, windows, mobile
\* and default, so for every RAM figure its assumedReserveGB is at most, and
\* its usableRamGB at least, that of every other class.
C20_LinuxLowestOverhead ==
  /\ \A c \in OtherClasses :
       /\ PLATFORM_OVERHEAD.linux.base < PLATFORM_OVERHEAD[c].base
       /\ PLATFORM_OVERHEAD.linux.percent < PLATFORM_OVERHEAD[c].percent
  /\ call = "estimateUsableRamGB" =>
       LET linux == estimateUsableRamGB(args.ramGB, FALSE, "linux")
       IN  /\ linux.assumedReserveGB <= ret.assumedReserveGB
           /\ linux.usableRamGB >= ret.usableRamGB

\* at 16 GB a phone reserves 6.8 GB and keeps 9.2 GB, linux reserves 3.1 GB
\* and keeps 12.9 GB
C20_Witness ==
  /\ call = "estimateUsableRamGB"
  /\ args.ramGB = GB(16, 1)
  /\ ClassOf(args.isMobile, args.platform) = "mobile"
  /\ ret.assumedReserveGB = GB(68, 10)
  /\ ret.usableRamGB = GB(92, 10)
  /\ estimateUsableRamGB(args.ramGB, FALSE, "linux")
       = [ usableRamGB |-> GB(129, 10), assumedReserveGB |-> GB(31, 10) ]

C21_WitnessMatrix ==
  /\ call = "getQuantMatrix"
  /\ args.paramSizes = << GB(70, 1), GB(7, 1) >>
  /\ caller.paramSizes = << GB(70, 1), GB(7, 1) >>

\* how often a variant occurs in a list of variants
Occurrences(list, x) == Cardinality({ i \in 1..Len(list) : list[i] = x })

\* C22: getRunnableVariants returns the empty list when RAM is absent;
\* otherwise it returns exactly the input variants whose verdict status is not
\* 'no', each paired with its own verdict, with every 'run' entry before every
\* 'maybe' entry and, within one status, in order of non-increasing paramsB.
C22_RunnableVariants ==
  call = "getRunnableVariants" =>
    IF ~RamGiven(args) THEN ret = << >>
    ELSE
      LET returned == [ i \in 1..Len(ret) |-> ret[i].variant ]
      IN  /\ \A i \in 1..Len(ret) :
               /\ ret[i].verdict = VerdictIn(args, ret[i].variant)
               /\ ret[i].verdict.status \in { "run", "maybe" }
          /\ \A x \in VariantPool :
               Occurrences(returned, x)
                 = IF VerdictIn(args, x).status = "no" THEN 0
                   ELSE Occurrences(args.variants, x)
          /\ \A i \in 1..Len(ret), j \in 1..Len(ret) :
               i < j =>
                 /\ ret[j].verdict.status = "run" => ret[i].verdict.status = "run"
                 /\ ret[i].verdict.status = ret[j].verdict.status =>
                      ret[i].variant.paramsB >= ret[j].variant.paramsB

\* 47B does not fit 16 GB, 8B fits tightly and 0.5B comfortably:
\* the small comfortable variant comes before the larger tight one
C22_Witness ==
  /\ call = "getRunnableVariants"
  /\ RamGiven(args)
  /\ Len(args.variants) = 3
  /\ args.variants[1].tag = "8x7b"
  /\ args.variants[2].tag = "8b-q8"
  /\ args.variants[3].tag = "0.5b"
  /\ Len(ret) = 2
  /\ ret[1].variant.tag = "0.5b"
  /\ ret[1].verdict.status = "run"
  /\ ret[2].variant.tag = "8b-q8"
  /\ ret[2].verdict.status = "maybe"

\* without a RAM figure nothing is returned
C22_WitnessNoRam ==
  /\ call = "getRunnableVariants"
  /\ args.ramGB = Null
  /\ Len(args.variants) = 3
  /\ ret = << >>

\* C30: the two selection operations agree: on the same variant list, RAM and
\* platform getBestRunnableVariant returns null exactly when
\* getRunnableVariants returns the empty list, and otherwise the variant (and
\* verdict) it returns is the first element of getRunnableVariants' result.
C30_BestIsFirstRunnable ==
  /\ call = "getBestRunnableVariant" =>
       LET runnable == getRunnableVariants(args.variants, args.ramGB,
                                           args.isMobile, args.platform)
       IN  /\ ret = Null <=> runnable = << >>
           /\ ret # Null => Val(ret) = runnable[1]
  /\ call = "getRunnableVariants" =>
       LET best == getBestRunnableVariant(args.variants, args.ramGB,
                                          args.isMobile, args.platform)
       IN  /\ best = Null <=> ret = << >>
           /\ best # Null => Val(best) = ret[1]

\* two 8B variants tie on paramsB and both fit 32 GB comfortably: both
\* operations put the one that comes first in the input first
C30_Witness ==
  /\ call = "getBestRunnableVariant"
  /\ RamGiven(args)
  /\ Len(args.variants) = 3
  /\ args.variants[1].tag = "0.5b"
  /\ args.variants[2].tag = "8b-q8"
  /\ args.variants[3].tag = "8b"
  /\ ret # Null
  /\ Val(ret).variant.tag = "8b-q8"
  /\ Val(ret).verdict.status = "run"
  /\ Len(getRunnableVariants(args.variants, args.ramGB, args.isMobile,
                             args.platform)) = 3

\* nothing fits: null from the one, the empty list from the other
C30_WitnessNone ==
  /\ call = "getRunnableVariants"
  /\ RamGiven(args)
  /\ Len(args.variants) = 2
  /\ ret = << >>

\* the quick verdicts in the order no < maybe < tight < comfortable
StampRank(stamp) ==
  CASE stamp = "NO" -> 0
    [] stamp = "MAYBE" -> 1
    [] stamp = "TIGHT" -> 2
    [] stamp = "YES" -> 3

\* C27: the verdict is monotone in RAM: for a fixed variant, context and
\* platform and two RAM figures r1 <= r2 that are present, usableRamGB(r1) <=
\* usableRamGB(r2) and the verdict at r2 is at least as good as the verdict at
\* r1 in the order no < maybe < tight < comfortable.
C27_MonotoneInRam ==
  /\ (call = "getVariantVerdict" /\ RamGiven(args)) =>
       \A r2 \in RamArgs :
         (RamGiven([ ramGB |-> r2 ]) /\ Val(args.ramGB) <= Val(r2)) =>
           /\ UsableOf(args) <= UsableOf([ args EXCEPT !.ramGB = r2 ])
           /\ StampRank(ret.stamp)
                <= StampRank(getVariantVerdict(args.variant, r2,
                                               args.contextTokens,
                                               args.isMobile,
                                               args.platform).stamp)
  /\ call = "estimateUsableRamGB" =>
       \A r2 \in RamArgs \ { Null } :
         args.ramGB <= Val(r2) =>
           ret.usableRamGB
             <= estimateUsableRamGB(Val(r2), args.isMobile,
                                    args.platform).usableRamGB

\* an 8B variant of 4.8 GB: no on 8 GB, comfortable on 16 GB
C27_Witness ==
  /\ call = "getVariantVerdict"
  /\ args.variant.paramsB = GB(8, 1)
  /\ args.variant.sizeGB = GB(48, 10)
  /\ args.ramGB = Num(GB(8, 1))
  /\ ret.stamp = "NO"
  /\ getVariantVerdict(args.variant, Num(GB(16, 1)), args.contextTokens,
                       args.isMobile, args.platform).stamp = "YES"

\* C28: every row of the quantization matrix is monotone: for fixed paramsB,
\* RAM, context and platform, totalMemoryGB is non-decreasing and the status
\* non-improving along the display order Q4_K_M, Q5_K_M, Q8_0, F16: a cell is
\* 'run' only if every cell to its left is 'run', and 'no' only if every cell
\* to its right is 'no'.
C28_RowMonotone ==
  call = "getQuantMatrix" =>
    LET order == << "Q4_K_M", "Q5_K_M", "Q8_0", "F16" >>
    IN  \A r \in 1..Len(ret) :
          \A i \in 1..4, j \in 1..4 :
            i < j =>
              LET left == ret[r].cells[order[i]]
                  right == ret[r].cells[order[j]]
              IN  /\ left.totalMemoryGB <= right.totalMemoryGB
                  /\ right.status = "run" => left.status = "run"
                  /\ left.status = "no" => right.status = "no"
                  /\ left.status = "unknown" <=> right.status = "unknown"

\* a 7B row that runs at Q4_K_M and does not at F16
C28_Witness ==
  /\ call = "getQuantMatrix"
  /\ Len(ret) >= 1
  /\ ret[1].paramsB = GB(7, 1)
  /\ ret[1].cells["Q4_K_M"].status = "run"
  /\ ret[1].cells["Q8_0"].status = "maybe"
  /\ ret[1].cells["F16"].status = "no"

\* C29: the quick and the detailed classifier agree: for every variant,
\* context override, platform / isMobile setting and present RAM figure,
\* getVariantVerdict and getFullVariantVerdict return the same status and the
\* same estimate, and the detailed verdict's usableRamGB minus
\* estimate.totalGB is the quick verdict's headroomGB.
C29_QuickAgreesWithFull ==
  /\ (call = "getVariantVerdict" /\ RamGiven(args)) =>
       \A cores \in CoresArgs :
         LET full == getFullVariantVerdict(args.variant, args.ramGB, cores,
                                           args.contextTokens, args.isMobile,
                                           args.platform)
         IN  /\ full.status = ret.status
             /\ full.estimate = ret.estimate
             /\ Val(full.usableRamGB) - full.estimate.totalGB
                  = Val(ret.headroomGB)
  /\ (call = "getFullVariantVerdict" /\ RamGiven(args)) =>
       LET quick == getVariantVerdict(args.variant, args.ramGB,
                                      args.contextTokens, args.isMobile,
                                      args.platform)
       IN  /\ quick.status = ret.status
           /\ quick.estimate = ret.estimate
           /\ Val(ret.usableRamGB) - ret.estimate.totalGB
                = Val(quick.headroomGB)

\* a 32K override turns a 7B variant on 8 GB into a 'no' for both
C29_Witness ==
  /\ call = "getFullVariantVerdict"
  /\ args.variant.paramsB = GB(7, 1)
  /\ args.contextTokens = Num(32768)
  /\ args.ramGB = Num(GB(8, 1))
  /\ ret.status = "no"
  /\ ret.usableRamGB # Null
  /\ getVariantVerdict(args.variant, args.ramGB, args.contextTokens,
                       args.isMobile, args.platform).stamp = "NO"

\* the requests of the panel that have settled
SettledRequests == { r \in RequestNames : requests[r].phase = "settled" }

RejectedWith(q, kind) ==
  /\ q.outcome.status = "rejected"
  /\ "kind" \in DOMAIN q.outcome.reason
  /\ q.outcome.reason.kind = kind

ResponseOk(q) == q.response # Null /\ Val(q.response).ok

ResponseNotOk(q) == q.response # Null /\ ~Val(q.response).ok

\* C23 as stated: a settled call of fetchJson has resolved with the parsed
\* body if the response was OK, has rejected with kind 'http' and the response
\* status if the response was not OK, has rejected with kind 'timeout' if its
\* timer aborted it, and has rejected with kind 'cors_or_mixed' otherwise; its
\* timer is no longer armed.
C23_Original ==
  \A r \in SettledRequests :
    LET q == requests[r]
    IN  /\ q.timer # "armed"
        /\ ResponseOk(q) =>
             q.outcome.status = "fulfilled" /\ q.outcome.value \in JsonBodies[r]
        /\ ResponseNotOk(q) =>
             RejectedWith(q, "http")
               /\ q.outcome.reason.status = Val(q.response).status
        /\ q.timer = "fired" => RejectedWith(q, "timeout")
        /\ ~ResponseOk(q) /\ ~ResponseNotOk(q) /\ q.timer # "fired" =>
             RejectedWith(q, "cors_or_mixed")

\* C23: a settled call of fetchJson has resolved with the parsed body exactly
\* when the response was OK and its body was read as JSON; has rejected with
\* kind 'http' and the response status exactly when the response was not OK
\* (also when the timer fired while the error body was read); has rejected
\* with kind 'timeout' exactly when the timer fired before a response or
\* during the read of an OK body; and has rejected with kind 'cors_or_mixed'
\* exactly when fetch itself failed or an OK body was not JSON.  Its timer is
\* no longer armed, so no abort fires after the call has settled.
C23_FourOutcomes ==
  \A r \in SettledRequests :
    LET q == requests[r]
    IN  /\ q.timer # "armed"
        /\ (q.outcome.status = "fulfilled")
             <=> (ResponseOk(q) /\ q.body = "json" /\ q.timer = "cleared")
        /\ q.outcome.status = "fulfilled" => q.outcome.value \in JsonBodies[r]
        /\ RejectedWith(q, "http") <=> ResponseNotOk(q)
        /\ RejectedWith(q, "http") =>
             q.outcome.reason.status = Val(q.response).status
        /\ RejectedWith(q, "timeout")
             <=> (q.timer = "fired" /\ ~ResponseNotOk(q))
        /\ RejectedWith(q, "cors_or_mixed")
             <=> (q.timer = "cleared"
                    /\ \/ q.response = Null
                       \/ ResponseOk(q) /\ q.body = "notJson")
        /\ q.outcome.status = "rejected" =>
             \E k \in { "http", "timeout", "cors_or_mixed" } : RejectedWith(q, k)

\* a request aborted by its timer while it waited for the response
C23_Witness ==
  \E r \in SettledRequests :
    /\ requests[r].timer = "fired"
    /\ requests[r].response = Null
    /\ RejectedWith(requests[r], "timeout")

\* an OK response whose body is not JSON
C23_WitnessNotJson ==
  \E r \in SettledRequests :
    /\ ResponseOk(requests[r])
    /\ requests[r].body = "notJson"
    /\ RejectedWith(requests[r], "cors_or_mixed")

\* a response that is not OK, aborted while its body was read
C23_WitnessAbortedErrorBody ==
  \E r \in SettledRequests :
    /\ ResponseNotOk(requests[r])
    /\ requests[r].timer = "fired"
    /\ RejectedWith(requests[r], "http")

\* a check has run to the end of runCheck (or has thrown out of it) and no
\* new check has been started
CheckEnded ==
  /\ pc \in { "idle", "threw" }
  /\ \A r \in RequestNames : requests[r].phase = "settled"

\* C24: when runCheck has ended, the status is 'ok' if and only if both the
\* version request and the model-list request were fulfilled; if either was
\* rejected the status is 'error' and the error is the version request's
\* reason, or else the model-list request's reason, and is not null; and while
\* a check is awaiting its requests the version and models of the previous
\* check are cleared.
C24_StatusFollowsRequests ==
  /\ CheckEnded =>
       LET v == getOllamaVersion(requests.version)
           m == listOllamaModels(requests.models)
       IN  /\ (panel.status = "ok")
                <=> (v.status = "fulfilled" /\ m.status = "fulfilled")
           /\ v.status = "rejected" \/ m.status = "rejected" =>
                /\ panel.status = "error"
                /\ panel.error # Null
                /\ panel.error = IF v.status = "rejected" THEN Num(v.reason)
                                 ELSE Num(m.reason)
  /\ pc = "awaiting" => panel.version = Null /\ panel.models = Null

\* C25: every check that runCheck starts eventually leaves 'checking' for
\* 'ok' or 'error', and at most one check is in flight at any time.
C25_CheckEnds ==
  /\ (panel.status = "checking") ~> (panel.status \in { "ok", "error" })
  /\ [](inFlight <= 1)

\* the categories the catalog may show, in the priority of inferCategory
\* ('general' last: it is the default)
CatalogCategories == << "embedding", "vision", "thinking", "tools", "general" >>

\* the category the priority order gives to a list of capabilities
CategoryByPriority(capabilities) ==
  LET caps == { toLowerCase(capabilities[i]) : i \in 1..Len(capabilities) }
      hits == { k \in 1..4 : CatalogCategories[k] \in caps }
  IN  IF hits = {} THEN "general"
      ELSE CatalogCategories[CHOOSE k \in hits : \A h \in hits : k <= h]

SlugsOf(list) == { list[i].slug : i \in 1..Len(list) }

SlugCount(list, slug) == Cardinality({ i \in 1..Len(list) : list[i].slug = slug })

\* the part of C26 about categories and tags, for the call in hand
CatalogCategoriesHold ==
  LET scrapedSlugs == SlugsOf(args.scraped)
  IN  \A i \in 1..Len(ret) :
        /\ \E k \in 1..5 : ret[i].category = CatalogCategories[k]
        /\ ret[i].slug \in scrapedSlugs =>
             \E j \in 1..Len(args.scraped) :
               /\ args.scraped[j].slug = ret[i].slug
               /\ ret[i].category = CategoryByPriority(args.scraped[j].capabilities)
        /\ ret[i].slug \notin scrapedSlugs =>
             /\ ret[i].category = "general"
             /\ ret[i].tags = << >>
             /\ ret[i].slug \in SlugsOf(args.curated)

\* C26 as stated: every entry of the merged catalog has a category in
\* {general, embedding, vision, thinking, tools}, scraped-backed entries have
\* the category inferred from their capabilities, curated-only entries are
\* 'general' with empty tags, and every slug of either input appears exactly
\* once in the result.
C26_Original ==
  call = "mergeModels" =>
    /\ CatalogCategoriesHold
    /\ \A slug \in SlugsOf(args.curated) \cup SlugsOf(args.scraped) :
         SlugCount(ret, slug) = 1

\* C26: every entry of the merged catalog has a category in {general,
\* embedding, vision, thinking, tools}, scraped-backed entries have the
\* category inferred from their capabilities (priority embedding > vision >
\* thinking > tools > general) whatever their curated entry says, curated-only
\* entries are 'general' with empty tags, and every slug of either input
\* appears in the result as often as the scraped list has it or, when the
\* scraped list does not have it, as often as the curated list has it: exactly
\* once when each list names it at most once.
C26_CatalogCategories ==
  call = "mergeModels" =>
    /\ CatalogCategoriesHold
    /\ \A slug \in SlugsOf(args.curated) \cup SlugsOf(args.scraped) :
         /\ SlugCount(ret, slug) =
              IF slug \in SlugsOf(args.scraped)
              THEN SlugCount(args.scraped, slug)
              ELSE SlugCount(args.curated, slug)
         /\ SlugCount(args.curated, slug) <= 1 /\ SlugCount(args.scraped, slug) <= 1
              => SlugCount(ret, slug) = 1
    /\ SlugsOf(ret) = SlugsOf(args.curated) \cup SlugsOf(args.scraped)

\* a merge of a curated 'reasoning' entry with its scraped entry, and of a
\* curated-only 'code' entry
C26_Witness ==
  /\ call = "mergeModels"
  /\ \E i \in 1..Len(args.curated) :
       /\ args.curated[i].category = "reasoning"
       /\ args.curated[i].slug \in SlugsOf(args.scraped)
       /\ \E k \in 1..Len(ret) :
            /\ ret[k].slug = args.curated[i].slug
            /\ ret[k].category = "thinking"
            /\ ret[k].name = args.curated[i].name
  /\ \E i \in 1..Len(args.curated) :
       /\ args.curated[i].category = "code"
       /\ args.curated[i].slug \notin SlugsOf(args.scraped)
       /\ \E k \in 1..Len(ret) :
            ret[k].slug = args.curated[i].slug /\ ret[k].category = "general"

\* a scraped list that names a slug twice
C26_WitnessRepeated ==
  /\ call = "mergeModels"
  /\ \E slug \in SlugsOf(args.scraped) :
       SlugCount(args.scraped, slug) = 2 /\ SlugCount(ret, slug) = 2

====
